---- MODULE Spec2Model ----
(***************************************************************************)
(* A model of the bot-redirect classification engine: the generic Cache    *)
(* (cache.go), the UserAgentMatcher (config.go), the IPRangeChecker, the   *)
(* ReferrerChecker (referrer_checker.go), the ReverseDNSChecker            *)
(* (plugin.go) and the BotDetector that composes them (bot_detector.go).   *)
(*                                                                         *)
(* Strings are Go strings; the helpers below compute on them character by  *)
(* character, as the strings package does.  Time is an integer clock that  *)
(* the Tick action advances; every time.Now() of a handler reads it.       *)
(***************************************************************************)
EXTENDS Integers, Sequences, FiniteSets, TLC

(***************************************************************************)
(* Bounds of the model.                                                    *)
(***************************************************************************)
MaxTime == 2
\* Number of goroutines that call into the engine.
NumGoroutines == 1
\* Config.MaxCacheSize, scaled down (validateConfig asks for at least 100).
MaxCacheSize == 1
\* The number of DetectBot calls in a run.
MaxChecks == 2

(***************************************************************************)
(* strings package                                                         *)
(***************************************************************************)
Char(s, i) == SubSeq(s, i, i)

UpperChars == "ABCDEFGHIJKLMNOPQRSTUVWXYZ"
LowerChars == "abcdefghijklmnopqrstuvwxyz"

\* unicode.ToLower on the ASCII letters
UpperToLower ==
    [c \in {Char(UpperChars, i) : i \in 1..26} |->
        Char(LowerChars, CHOOSE i \in 1..26 : Char(UpperChars, i) = c)]
LowerChar(c) == IF c \in DOMAIN UpperToLower THEN UpperToLower[c] ELSE c

RECURSIVE ToLower(_)
ToLower(s) == IF s = "" THEN "" ELSE LowerChar(Head(s)) \o ToLower(Tail(s))

HasPrefix(s, p) == Len(p) <= Len(s) /\ SubSeq(s, 1, Len(p)) = p
HasSuffix(s, p) == Len(p) <= Len(s) /\ SubSeq(s, Len(s) - Len(p) + 1, Len(s)) = p

\* strings.Index: the 1-based position of the first occurrence, 0 when absent
\* (Go's 0-based index plus one; Go's -1 is 0 here).
Index(s, sub) ==
    LET hits == {i \in 1..(Len(s) - Len(sub) + 1) : SubSeq(s, i, i + Len(sub) - 1) = sub}
    IN  IF hits = {} THEN 0 ELSE CHOOSE i \in hits : \A j \in hits : i <= j

\* strings.Contains
Contains(s, sub) == \E i \in 1..(Len(s) - Len(sub) + 1) : SubSeq(s, i, i + Len(sub) - 1) = sub

\* strings.ContainsAny
ContainsAny(s, chars) == \E i \in 1..Len(chars) : Contains(s, Char(chars, i))

\* strings.Trim(s, cutset) for a one-character cutset
RECURSIVE TrimLeft(_, _)
TrimLeft(s, c) == IF s # "" /\ Head(s) = c THEN TrimLeft(Tail(s), c) ELSE s
RECURSIVE TrimRight(_, _)
TrimRight(s, c) ==
    IF s # "" /\ Char(s, Len(s)) = c THEN TrimRight(SubSeq(s, 1, Len(s) - 1), c) ELSE s
Trim(s, c) == TrimRight(TrimLeft(s, c), c)

\* strings.Split(s, sep) for a one-character separator
RECURSIVE Split(_, _)
Split(s, sep) ==
    LET i == Index(s, sep)
    IN  IF i = 0 THEN <<s>>
        ELSE <<SubSeq(s, 1, i - 1)>> \o Split(SubSeq(s, i + 1, Len(s)), sep)

\* strings.LastIndex, 1-based, 0 when absent
LastIndex(s, sub) ==
    LET hits == {i \in 1..(Len(s) - Len(sub) + 1) : SubSeq(s, i, i + Len(sub) - 1) = sub}
    IN  IF hits = {} THEN 0 ELSE CHOOSE i \in hits : \A j \in hits : i >= j

(***************************************************************************)
(* strconv and net: decimal numbers, IPv4 addresses and CIDR networks.     *)
(* The addresses of the model are IPv4 or malformed; an IPv4 address is    *)
(* the sequence of its four bytes.                                         *)
(***************************************************************************)
Digits == "0123456789"
DigitVal(c) == (CHOOSE i \in 1..10 : Char(Digits, i) = c) - 1
IsDigits(s) == s # "" /\ \A i \in 1..Len(s) : Contains(Digits, Char(s, i))

\* strconv.Atoi on a string of decimal digits
RECURSIVE Atoi(_)
Atoi(s) == IF s = "" THEN 0 ELSE 10 * Atoi(SubSeq(s, 1, Len(s) - 1)) + DigitVal(Char(s, Len(s)))

\* strconv.Itoa on a natural number
RECURSIVE Itoa(_)
Itoa(n) == IF n < 10 THEN Char(Digits, n + 1) ELSE Itoa(n \div 10) \o Char(Digits, (n % 10) + 1)

\* one decimal octet as net.ParseIP reads it: 1 to 3 digits, no leading zero, <= 255
IsOctet(s) ==
    /\ IsDigits(s) /\ Len(s) <= 3
    /\ (Len(s) > 1 => Head(s) # "0")
    /\ Atoi(s) <= 255

NoIP == [ok |-> FALSE, b |-> <<0, 0, 0, 0>>]

\* net.ParseIP restricted to dotted-quad IPv4: the four bytes of the address
ParseIP(s) ==
    LET parts == Split(s, ".")
    IN  IF Len(parts) = 4 /\ \A i \in 1..4 : IsOctet(parts[i])
        THEN [ok |-> TRUE, b |-> [i \in 1..4 |-> Atoi(parts[i])]]
        ELSE NoIP

\* net.IP.String of an IPv4 address
IPString(b) ==
    Itoa(b[1]) \o "." \o Itoa(b[2]) \o "." \o Itoa(b[3]) \o "." \o Itoa(b[4])

RECURSIVE Pow2(_)
Pow2(k) == IF k = 0 THEN 1 ELSE 2 * Pow2(k - 1)

\* the number of bits of byte i (1..4) that a mask of `ones` leading ones keeps
KeptBits(ones, i) ==
    LET k == ones - 8 * (i - 1)
    IN  IF k < 0 THEN 0 ELSE IF k > 8 THEN 8 ELSE k

\* net.IP.Mask with net.CIDRMask(ones, 32)
MaskIP(b, ones) == [i \in 1..4 |-> b[i] - (b[i] % Pow2(8 - KeptBits(ones, i)))]

NoNet == [ok |-> FALSE, ip |-> <<0, 0, 0, 0>>, ones |-> 0]

\* net.ParseCIDR: the network (masked address and prefix length) of "a.b.c.d/len"
ParseCIDR(s) ==
    LET i    == Index(s, "/")
        addr == ParseIP(SubSeq(s, 1, i - 1))
        len  == SubSeq(s, i + 1, Len(s))
    IN  IF /\ i > 0 /\ addr.ok /\ IsDigits(len) /\ Len(len) <= 2
           /\ (Len(len) > 1 => Head(len) # "0") /\ Atoi(len) <= 32
        THEN [ok |-> TRUE, ip |-> MaskIP(addr.b, Atoi(len)), ones |-> Atoi(len)]
        ELSE NoNet

\* net.ParseCIDR on an IPv6 network "groups::/len" that is written in its canonical
\* form with the host bits zero (masking leaves it as it is): its text and its
\* prefix length
ParseCIDR6(s) ==
    LET i    == Index(s, "/")
        addr == SubSeq(s, 1, i - 1)
        len  == SubSeq(s, i + 1, Len(s))
    IN  IF /\ i > 0 /\ HasSuffix(addr, "::") /\ Len(addr) > 2
           /\ \A k \in 1..Len(addr) : Contains("0123456789abcdef:", Char(addr, k))
           /\ IsDigits(len) /\ Len(len) <= 3
           /\ (Len(len) > 1 => Head(len) # "0") /\ Atoi(len) <= 128
        THEN [ok |-> TRUE, text |-> addr, ones |-> Atoi(len)]
        ELSE [ok |-> FALSE, text |-> "", ones |-> 0]

\* net.IPNet.Contains
NetContains(net, b) == MaskIP(b, net.ones) = net.ip

\* net.IPNet.String
NetString(net) == IPString(net.ip) \o "/" \o Itoa(net.ones)

\* net.SplitHostPort for addresses without brackets: the host before the last
\* colon; an address with no colon or with several is an error.
SplitHostPort(address) ==
    LET i == LastIndex(address, ":")
    IN  IF i = 0 \/ Contains(SubSeq(address, 1, i - 1), ":")
        THEN [err |-> TRUE, host |-> ""]
        ELSE [err |-> FALSE, host |-> SubSeq(address, 1, i - 1)]

(***************************************************************************)
(* regexp: the patterns of the model use literals, ".", "x*", "\x", "^"    *)
(* and "$", optionally behind the flag "(?i)".                             *)
(***************************************************************************)
\* regexp.Compile: the expression with its flag split off; a leading "*" has
\* nothing to repeat and is rejected.
Compile(expr) ==
    LET ci == HasPrefix(expr, "(?i)")
        re == IF ci THEN SubSeq(expr, 5, Len(expr)) ELSE expr
    IN  [ok |-> ~HasPrefix(re, "*") /\ ~HasPrefix(re, "^*"),
         src |-> expr, re |-> re, ci |-> ci]

AtomLen(re) == IF Head(re) = "\\" THEN 2 ELSE 1
AtomMatches(re, c, ci) ==
    IF Head(re) = "\\" THEN Char(re, 2) = c
    ELSE IF Head(re) = "." THEN TRUE
    ELSE IF ci THEN LowerChar(Head(re)) = LowerChar(c)
    ELSE Head(re) = c

RECURSIVE MatchHere(_, _, _)
MatchHere(re, s, ci) ==
    IF re = "" THEN TRUE
    ELSE IF re = "$" THEN s = ""
    ELSE LET n    == AtomLen(re)
             star == Len(re) > n /\ Char(re, n + 1) = "*"
             rest == SubSeq(re, n + (IF star THEN 2 ELSE 1), Len(re))
         IN  IF star
             THEN \E k \in 0..Len(s) :
                     /\ \A j \in 1..k : AtomMatches(re, Char(s, j), ci)
                     /\ MatchHere(rest, SubSeq(s, k + 1, Len(s)), ci)
             ELSE /\ s # ""
                  /\ AtomMatches(re, Head(s), ci)
                  /\ MatchHere(rest, Tail(s), ci)

\* regexp.Regexp.MatchString: an unanchored search
MatchString(rx, s) ==
    IF HasPrefix(rx.re, "^") THEN MatchHere(Tail(rx.re), s, rx.ci)
    ELSE \E i \in 0..Len(s) : MatchHere(rx.re, SubSeq(s, i + 1, Len(s)), rx.ci)

(***************************************************************************)
(* Go maps as functions on the set of keys present.                        *)
(***************************************************************************)
EmptyMap == [k \in {} |-> FALSE]
MapPut(m, k, v) == [x \in DOMAIN m \cup {k} |-> IF x = k THEN v ELSE m[x]]
MapDel(m, k) == [x \in DOMAIN m \ {k} |-> m[x]]
Has(m, k) == k \in DOMAIN m

VARIABLES
    now,        \* the clock read by time.Now()
    store,      \* Cache.store: key -> CacheEntry
    th,         \* per goroutine: the position of its current call and its locals
    lastSet,    \* history: the arguments of SetWithTTL while it is the last completed cache operation
    cfg,        \* Config: EnableReverseDNS, EnableReferrerCheck, BotUserAgents
    totalChecks,\* BotDetector.totalChecks: the DetectBot calls so far
    uam,        \* UserAgentMatcher: its pattern tiers and its result cache
    irc,        \* IPRangeChecker: its networks, single addresses, mutex and result cache
    rc,         \* ReferrerChecker: its domain tiers, mutex and result cache
    rdns,       \* ReverseDNSChecker: enabled, its result cache
    rl,         \* RateLimiter: its limits, its token buckets, the last call's outcome
    pool,       \* ReverseDNSChecker's worker pool: queues, workers, dispatcher, callers
    heap,       \* the *DetectionResult objects allocated so far, by address
    startTime,  \* per goroutine: DetectBot's local startTime
    sweep,      \* Cache's background sweep: isRunning, the stopCleanup channel, the task
    stats       \* BotDetector's verdict counters

vars == <<now, store, th, lastSet, cfg, totalChecks, uam, irc, rc, rdns, rl, pool, heap,
         startTime, sweep, stats>>

\* the state of the detection engine around the cache
detector == <<cfg, totalChecks, uam, irc, rc, rdns, rl, pool, heap, startTime, sweep, stats>>

\* the detection engine without its verdict counters
uncounted == <<cfg, totalChecks, uam, irc, rc, rdns, rl, pool, heap, startTime, sweep>>

Goroutines == 1..NumGoroutines

\* Cache.startCleanup, called by NewCache: isRunning is set and the sweep task
\* waits in its select; stopCleanup is a channel with a buffer of one
startCleanup == [isRunning |-> TRUE, stopCleanup |-> 0, pc |-> "select"]

\* BotDetector's counters botDetections, userRedirects and directUsers, and for
\* the record the DetectBot calls that were answered from the cache
NoStats == [botDetections |-> 0, userRedirects |-> 0, directUsers |-> 0, cached |-> 0]

\* updateStatistics with a counter for the bots alone
updateStatisticsBotsOnly(st, userType) ==
    IF userType = "bot" THEN [st EXCEPT !.botDetections = @ + 1] ELSE st

\* BotDetector.updateStatistics: the counter of the result's UserType
updateStatistics(st, userType) ==
    IF userType = "bot" THEN [st EXCEPT !.botDetections = @ + 1]
    ELSE IF userType = "from_search" THEN [st EXCEPT !.userRedirects = @ + 1]
    ELSE IF userType = "direct" THEN [st EXCEPT !.directUsers = @ + 1]
    ELSE st

(***************************************************************************)
(* Cache (cache.go)                                                        *)
(***************************************************************************)
\* Config.CacheTTL, in ticks of the clock (DefaultConfig: one hour).
CacheTTL == 1

\* type CacheEntry; ok = FALSE stands for "no entry" (a nil *CacheEntry).
CacheEntry(key, value, at, ttl) ==
    [ok |-> TRUE, Key |-> key, Value |-> value, CreatedAt |-> at, LastAccess |-> at, TTL |-> ttl]
NoEntry == [ok |-> FALSE]

NoSet == [ok |-> FALSE]

\* Cache.isExpired at clock reading t
isExpiredNoInfinite(entry, t) == t - entry.CreatedAt > entry.TTL
isExpired(entry, t) ==
    IF entry.TTL <= 0 THEN FALSE ELSE t - entry.CreatedAt > entry.TTL

\* Cache.evictLRUUnsafe: the stores it can leave.  The range over the map visits
\* the entries in any order and keeps the first one whose LastAccess is strictly
\* before every one seen so far (starting from time.Now()); the entry is deleted
\* unless its key is the empty string, the value oldestKey starts with.
evictLRUUnsafe(st, t) ==
    LET oldest == {k \in DOMAIN st :
                     /\ st[k].LastAccess < t
                     /\ \A j \in DOMAIN st : st[j].LastAccess >= st[k].LastAccess}
    IN  IF oldest = {} THEN {st}
        ELSE {IF k # "" THEN MapDel(st, k) ELSE st : k \in oldest}

\* The goroutines' entry pointers that no longer point into the store after the
\* keys in `gone` were deleted or replaced.
Detach(t, gone) ==
    [g \in DOMAIN t |->
        IF t[g].pc \in {"get_read", "db_get"} /\ t[g].key \in gone
        THEN [t[g] EXCEPT !.live = FALSE] ELSE t[g]]

Changed(old, new) ==
    {k \in DOMAIN old : ~Has(new, k) \/ new[k] # old[k]}

\* Cache.SetWithTTL on store st at time t: the stores it can leave (it evicts
\* first when the store is full)
SetOutcomesOf(maxSize, st, key, value, ttl, t) ==
    {MapPut(ev, key, CacheEntry(key, value, t, ttl)) :
        ev \in (IF Cardinality(DOMAIN st) >= maxSize THEN evictLRUUnsafe(st, t) ELSE {st})}
SetOutcomes(st, key, value, ttl, t) == SetOutcomesOf(MaxCacheSize, st, key, value, ttl, t)

\* Cache.SetWithTTL, the whole call (it holds c.mutex from entry to return), on
\* a cache built with the capacity maxSize
SetWithTTLOf(maxSize, key, value, ttl) ==
    /\ \E st \in SetOutcomesOf(maxSize, store, key, value, ttl, now) :
          /\ store' = st
          /\ th' = Detach(th, Changed(store, st) \cup {key})
    /\ lastSet' = [ok |-> TRUE, key |-> key, value |-> value, ttl |-> ttl, at |-> now]
    /\ UNCHANGED <<now, detector>>
SetWithTTL(key, value, ttl) == SetWithTTLOf(MaxCacheSize, key, value, ttl)

\* Cache.Set
Set(key, value) == SetWithTTL(key, value, CacheTTL)

\* Cache.Delete
Delete(key) ==
    /\ store' = MapDel(store, key)
    /\ th' = Detach(th, {key})
    /\ lastSet' = NoSet
    /\ UNCHANGED <<now, detector>>

\* Cache.Clear
Clear ==
    /\ store' = EmptyMap
    /\ th' = Detach(th, DOMAIN store)
    /\ lastSet' = NoSet
    /\ UNCHANGED <<now, detector>>

\* Cache.cleanup, one run of the background sweep started by startCleanup: the
\* sweep task takes the ticker case of its select
cleanup ==
    LET kept == [k \in {x \in DOMAIN store : ~isExpired(store[x], now)} |-> store[k]]
    IN  /\ sweep.pc = "select"
        /\ \E st \in (IF Cardinality(DOMAIN kept) > MaxCacheSize
                      THEN evictLRUUnsafe(kept, now) ELSE {kept}) :
              /\ store' = st
              /\ th' = Detach(th, Changed(store, st))
        /\ lastSet' = NoSet
        /\ UNCHANGED <<now, detector>>

\* Cache.Get, first part: the read of c.store[key] under the read lock
GetRead(g, key) ==
    /\ th[g].pc = "idle"
    /\ th' = [th EXCEPT ![g] =
                 [pc |-> "get_read", key |-> key,
                  entry |-> IF Has(store, key) THEN store[key] ELSE NoEntry,
                  live |-> Has(store, key),
                  startAt |-> now,
                  after |-> IF lastSet.ok /\ lastSet.key = key THEN lastSet ELSE NoSet,
                  ret |-> [done |-> FALSE]]]
    /\ UNCHANGED <<now, store, lastSet, detector>>

\* Cache.Get, second part, for the goroutine with locals t: a miss returns nil; an
\* expired entry is removed with Delete(key) and nil is returned; otherwise
\* LastAccess of the entry that was read is updated under the write lock and its
\* Value is returned.
GetOutcome(t) ==
    LET e == t.entry
    IN  IF ~e.ok THEN [found |-> FALSE, store |-> store, gone |-> {}]
        ELSE IF isExpired(e, now)
        THEN [found |-> FALSE, store |-> MapDel(store, t.key), gone |-> {t.key}]
        ELSE [found |-> TRUE,
              store |-> IF t.live THEN [store EXCEPT ![t.key].LastAccess = now] ELSE store,
              gone |-> {}]

GetReturn(g) ==
    LET t   == th[g]
        out == GetOutcome(t)
        ret == [done |-> TRUE, found |-> out.found,
                value |-> IF out.found THEN t.entry.Value ELSE "",
                after |-> t.after.ok]
    IN  /\ t.pc = "get_read"
        /\ store' = out.store
        /\ th' = Detach([th EXCEPT ![g] = [pc |-> "idle", ret |-> ret]], out.gone)
        /\ lastSet' = NoSet
        /\ UNCHANGED <<now, detector>>

(***************************************************************************)
(* UserAgentMatcher (config.go)                                            *)
(*                                                                         *)
(* Confidence values are in hundredths (1.0 is 100).  The checkers' own    *)
(* result caches hold a few entries, far below their maxCache (1000, 5000, *)
(* 3000), so that their overflow cleanup never runs.  The statistics       *)
(* counters are not part of the state; the locks they take are.            *)
(***************************************************************************)
\* isExactMatch: no regex metacharacter in the pattern
isExactMatch(pattern) == ~ContainsAny(pattern, "*?+[](){}^$|\\.")

\* isSimpleContains
isSimpleContains(pattern) ==
    IF HasPrefix(pattern, "*") /\ HasSuffix(pattern, "*")
    THEN LET core == SubSeq(pattern, 2, Len(pattern) - 1)
         IN  ~Contains(core, "*") /\ ~ContainsAny(core, "?+[](){}^$|\\.")
    ELSE IF HasPrefix(pattern, "*") \/ HasSuffix(pattern, "*")
    THEN ~ContainsAny(Trim(pattern, "*"), "?+[](){}^$|\\.*")
    ELSE FALSE

NoPatterns == [exactMatches |-> {}, containsMatches |-> <<>>, compiledRegexps |-> <<>>]

\* UserAgentMatcher.initializePatterns: the three tiers built from the list
RECURSIVE uamInitializePatterns(_, _)
uamInitializePatterns(patterns, acc) ==
    IF patterns = <<>> THEN acc
    ELSE LET pattern == Head(patterns)
             rx      == Compile("(?i)" \o pattern)
             next    ==
                 IF pattern = "" THEN acc
                 ELSE IF isExactMatch(pattern)
                 THEN [acc EXCEPT !.exactMatches = @ \cup {ToLower(pattern)}]
                 ELSE IF isSimpleContains(pattern)
                 THEN [acc EXCEPT !.containsMatches = Append(@, ToLower(Trim(pattern, "*")))]
                 ELSE IF rx.ok
                 THEN [acc EXCEPT !.compiledRegexps = Append(@, rx)]
                 ELSE acc
         IN  uamInitializePatterns(Tail(patterns), next)

\* The first element of a sequence that satisfies Test, 0 when there is none
FirstIndex(seq, Test(_)) ==
    IF \E i \in 1..Len(seq) : Test(seq[i])
    THEN CHOOSE i \in 1..Len(seq) : Test(seq[i]) /\ \A j \in 1..(i - 1) : ~Test(seq[j])
    ELSE 0

UANoMatch(t) == [IsBot |-> FALSE, MatchedPattern |-> "", Confidence |-> 0, Timestamp |-> t]

\* UserAgentMatcher.performCheck: exact, then contains, then regex
uamPerformCheck(m, userAgent, t) ==
    LET userAgentLower == ToLower(userAgent)
        InUA(pattern)  == Contains(userAgentLower, pattern)
        Matches(rx)    == MatchString(rx, userAgent)
        c == FirstIndex(m.containsMatches, InUA)
        r == FirstIndex(m.compiledRegexps, Matches)
    IN  IF userAgentLower \in m.exactMatches
        THEN [IsBot |-> TRUE, MatchedPattern |-> userAgentLower, Confidence |-> 100,
              Timestamp |-> t]
        ELSE IF c > 0
        THEN [IsBot |-> TRUE, MatchedPattern |-> m.containsMatches[c], Confidence |-> 90,
              Timestamp |-> t]
        ELSE IF r > 0
        THEN [IsBot |-> TRUE, MatchedPattern |-> m.compiledRegexps[r].src, Confidence |-> 80,
              Timestamp |-> t]
        ELSE UANoMatch(t)

\* getCachedResult of the three checkers: the entry when it is younger than the
\* TTL; an older entry is deleted on the way.
CachedFresh(cache, key, t) == Has(cache, key) /\ t - cache[key].Timestamp < cfg.CacheTTL
CacheAfterLookup(cache, key, t) ==
    IF Has(cache, key) /\ ~CachedFresh(cache, key, t) THEN MapDel(cache, key) ELSE cache

\* UserAgentMatcher.IsBot: the result and the matcher's cache afterwards
uamIsBot(m, userAgent, t) ==
    IF userAgent = "" THEN [res |-> UANoMatch(t), cache |-> m.cache]
    ELSE IF CachedFresh(m.cache, userAgent, t)
    THEN [res |-> m.cache[userAgent], cache |-> m.cache]
    ELSE LET res == uamPerformCheck(m, userAgent, t)
         IN  [res |-> res, cache |-> MapPut(m.cache, userAgent, res)]

(***************************************************************************)
(* sync.RWMutex: the goroutines that hold the read lock and the one that   *)
(* holds the write lock (0 for none).  A mutex is not reentrant: Lock      *)
(* waits for every reader, the caller's own read lock included.            *)
(***************************************************************************)
FreeMutex == [readers |-> {}, writer |-> 0]
CanRLock(mu) == mu.writer = 0
CanLock(mu) == mu.writer = 0 /\ mu.readers = {}
RLock(mu, g) == [mu EXCEPT !.readers = @ \cup {g}]
RUnlock(mu, g) == [mu EXCEPT !.readers = @ \ {g}]

(***************************************************************************)
(* IPRangeChecker                                                          *)
(***************************************************************************)
\* IPRangeChecker.sortNetworks: longer prefixes first (an insertion sort, one of
\* the orders sort.Slice may produce)
RECURSIVE InsertNetwork(_, _)
InsertNetwork(sorted, net) ==
    IF sorted = <<>> THEN <<net>>
    ELSE IF net.ones > Head(sorted).ones THEN <<net>> \o sorted
    ELSE <<Head(sorted)>> \o InsertNetwork(Tail(sorted), net)

\* sortNetworks left out
unsortedNetworks(nets) == nets

RECURSIVE sortNetworks(_)
sortNetworks(nets) ==
    IF nets = <<>> THEN <<>>
    ELSE InsertNetwork(sortNetworks(SubSeq(nets, 1, Len(nets) - 1)), nets[Len(nets)])

\* IPRangeChecker.initializeRanges, before the final sort
RECURSIVE CollectRanges(_, _)
CollectRanges(ranges, acc) ==
    IF ranges = <<>> THEN acc
    ELSE LET rangeStr == Head(ranges)
             net      == ParseCIDR(rangeStr)
             next     ==
                 IF rangeStr = "" THEN acc
                 ELSE IF ~Contains(rangeStr, "/")
                 THEN IF ParseIP(rangeStr).ok
                      THEN [acc EXCEPT !.singleIPv4 = @ \cup {rangeStr}]
                      ELSE acc
                 ELSE IF net.ok
                 THEN [acc EXCEPT !.ipv4Networks = Append(@, net)]
                 ELSE IF ParseCIDR6(rangeStr).ok
                 THEN [acc EXCEPT !.ipv6Networks = Append(@, ParseCIDR6(rangeStr))]
                 ELSE acc
         IN  CollectRanges(Tail(ranges), next)

initializeRanges(ranges) ==
    LET c == CollectRanges(ranges, [ipv4Networks |-> <<>>, ipv6Networks |-> <<>>,
                                    singleIPv4 |-> {}])
    IN  [c EXCEPT !.ipv4Networks = sortNetworks(@), !.ipv6Networks = sortNetworks(@)]

\* IPRangeChecker.extractIP (and ReverseDNSChecker.extractIP): the address
\* without its port
extractIP(address) ==
    IF HasPrefix(address, "[") /\ Contains(address, "]")
    THEN SubSeq(address, 2, Index(address, "]") - 1)
    ELSE LET hp == SplitHostPort(address)
         IN  IF hp.err THEN address ELSE hp.host

IPNoMatch(t) == [IsBot |-> FALSE, MatchedRange |-> "", Confidence |-> 0, Timestamp |-> t]

\* IPRangeChecker.performCheck below its locks: the single addresses by their
\* text, then the networks in their sorted order
MatchRanges(c, ipStr, t) ==
    LET ip        == ParseIP(ipStr)
        Holds(net) == NetContains(net, ip.b)
        i         == FirstIndex(c.ipv4Networks, Holds)
    IN  IF ~ip.ok THEN IPNoMatch(t)
        ELSE IF ipStr \in c.singleIPv4
        THEN [IsBot |-> TRUE, MatchedRange |-> ipStr, Confidence |-> 100, Timestamp |-> t]
        ELSE IF i > 0
        THEN [IsBot |-> TRUE, MatchedRange |-> NetString(c.ipv4Networks[i]),
              Confidence |-> 90, Timestamp |-> t]
        ELSE IPNoMatch(t)

\* IPRangeChecker.IsBot called by goroutine g.  The outcome is either a result
\* (blocked = FALSE) or the goroutine waiting for irc.mutex for ever:
\*   incrementTotalChecks, first, takes the write lock;
\*   performCheck takes the read lock and, still holding it, calls
\*   incrementInvalidIPs / incrementIPv4Checks, which take the write lock.
ircIsBot(c, g, ipStr, t) ==
    LET cleanIP == extractIP(ipStr)
        held    == RLock(c.mutex, g)
        res     == MatchRanges(c, cleanIP, t)
    IN  IF ipStr = ""
        THEN [blocked |-> FALSE, res |-> IPNoMatch(t), mutex |-> c.mutex, cache |-> c.cache,
              invalidIPs |-> c.invalidIPs]
        ELSE IF ~CanLock(c.mutex)
        THEN [blocked |-> TRUE, res |-> IPNoMatch(t), mutex |-> c.mutex, cache |-> c.cache,
              invalidIPs |-> c.invalidIPs]
        ELSE IF CachedFresh(c.cache, cleanIP, t)
        THEN [blocked |-> FALSE, res |-> c.cache[cleanIP], mutex |-> c.mutex,
              cache |-> c.cache, invalidIPs |-> c.invalidIPs]
        ELSE IF ~CanLock(held)
        THEN [blocked |-> TRUE, res |-> IPNoMatch(t), mutex |-> held,
              cache |-> CacheAfterLookup(c.cache, cleanIP, t),
              invalidIPs |-> c.invalidIPs]
        ELSE [blocked |-> FALSE, res |-> res, mutex |-> RUnlock(held, g),
              cache |-> MapPut(c.cache, cleanIP, res),
              invalidIPs |-> c.invalidIPs + (IF ParseIP(cleanIP).ok THEN 0 ELSE 1)]

(***************************************************************************)
(* ReferrerChecker (referrer_checker.go)                                   *)
(***************************************************************************)
isExactDomain(domain) == ~ContainsAny(domain, "*?[(")
isWildcardDomain(domain) == Contains(domain, "*") /\ ~ContainsAny(domain, "?[(")

\* convertToRegex: regexp.QuoteMeta, the quoted "*" turned into ".*", anchored
RECURSIVE QuoteWildcard(_)
QuoteWildcard(domain) ==
    IF domain = "" THEN ""
    ELSE LET c == Head(domain)
         IN  (IF c = "*" THEN ".*"
              ELSE IF Contains("\\.+?()|[]{}^$", c) THEN "\\" \o c
              ELSE c) \o QuoteWildcard(Tail(domain))
convertToRegex(domain) == "^" \o QuoteWildcard(domain) \o "$"

NoDomains == [exactDomains |-> {}, wildcardDomains |-> <<>>, compiledPatterns |-> <<>>]

\* ReferrerChecker.initializePatterns
RECURSIVE rcInitializePatterns(_, _)
rcInitializePatterns(domains, acc) ==
    IF domains = <<>> THEN acc
    ELSE LET domain == Head(domains)
             rx     == Compile("(?i)" \o convertToRegex(domain))
             next   ==
                 IF domain = "" THEN acc
                 ELSE IF isExactDomain(domain)
                 THEN [acc EXCEPT !.exactDomains = @ \cup {ToLower(domain)}]
                 ELSE IF isWildcardDomain(domain)
                 THEN [acc EXCEPT !.wildcardDomains = Append(@, ToLower(domain))]
                 ELSE IF rx.ok
                 THEN [acc EXCEPT !.compiledPatterns = Append(@, rx)]
                 ELSE acc
         IN  rcInitializePatterns(Tail(domains), next)

\* simpleWildcardMatch, the middle parts: each is looked for after the previous one
RECURSIVE MiddleParts(_, _)
MiddleParts(searchText, parts) ==
    IF parts = <<>> THEN TRUE
    ELSE LET idx == Index(searchText, Head(parts))
         IN  /\ idx > 0
             /\ MiddleParts(SubSeq(searchText, idx + Len(Head(parts)), Len(searchText)),
                            Tail(parts))

simpleWildcardMatch(text, pattern) ==
    LET parts == Split(pattern, "*")
        first == parts[1]
        last  == parts[Len(parts)]
    IN  IF Len(parts) = 1 THEN text = pattern
        ELSE /\ HasPrefix(text, first)
             /\ HasSuffix(text, last)
             /\ Len(first) + Len(last) <= Len(text)
             /\ MiddleParts(SubSeq(text, Len(first) + 1, Len(text) - Len(last)),
                            SubSeq(parts, 2, Len(parts) - 1))

matchWildcard(hostname, pattern) ==
    IF pattern = "*" THEN TRUE
    ELSE IF HasPrefix(pattern, "*.")
    THEN LET suffix == SubSeq(pattern, 3, Len(pattern))
         IN  hostname = suffix \/ HasSuffix(hostname, "." \o suffix)
    ELSE IF HasSuffix(pattern, ".*")
    THEN LET prefix == SubSeq(pattern, 1, Len(pattern) - 2)
         IN  hostname = prefix \/ HasPrefix(hostname, prefix \o ".")
    ELSE simpleWildcardMatch(hostname, pattern)

\* identifySearchEngine, with the table cut down to four of its domains
searchEngines ==
    <<[domain |-> "google.com", engine |-> "Google"],
      [domain |-> "bing.com", engine |-> "Bing"],
      [domain |-> "yandex.ru", engine |-> "Yandex"],
      [domain |-> "yahoo.com", engine |-> "Yahoo"]>>
identifySearchEngine(hostname) ==
    LET Exact(e)  == e.domain = hostname
        Sub(e)    == HasSuffix(hostname, "." \o e.domain)
        x == FirstIndex(searchEngines, Exact)
        y == FirstIndex(searchEngines, Sub)
    IN  IF x > 0 THEN searchEngines[x].engine
        ELSE IF y > 0 THEN searchEngines[y].engine
        ELSE IF Contains(hostname, "google") THEN "Google"
        ELSE IF Contains(hostname, "bing") \/ Contains(hostname, "msn") THEN "Bing"
        ELSE IF Contains(hostname, "yandex") THEN "Yandex"
        ELSE IF Contains(hostname, "yahoo") THEN "Yahoo"
        ELSE IF Contains(hostname, "baidu") THEN "Baidu"
        ELSE "Unknown Search Engine"

\* The position of the first character of s that is one of chars, Len(s)+1 if none
IndexAny(s, chars) ==
    LET hits == {i \in 1..Len(s) : Contains(chars, Char(s, i))}
    IN  IF hits = {} THEN Len(s) + 1 ELSE CHOOSE i \in hits : \A j \in hits : i <= j

\* url.Parse followed by URL.Hostname: an URL that starts with a colon has no
\* scheme and is an error; the host is what follows "//" up to the path, query or
\* fragment, without user information and port; there is none without "//".
urlHostname(rawURL) ==
    LET i    == Index(rawURL, "//")
        rest == SubSeq(rawURL, i + 2, Len(rawURL))
        auth == SubSeq(rest, 1, IndexAny(rest, "/?#") - 1)
        host == SubSeq(auth, LastIndex(auth, "@") + 1, Len(auth))
    IN  IF HasPrefix(rawURL, ":") THEN [err |-> TRUE, hostname |-> ""]
        ELSE IF i = 0 \/ IndexAny(rawURL, "/?#") < i THEN [err |-> FALSE, hostname |-> ""]
        ELSE [err |-> FALSE, hostname |-> SubSeq(host, 1, IndexAny(host, ":") - 1)]

\* type ReferrerResult; ReferrerType by its string
RefResult(isFromSearch, engine, pattern, confidence, referrerType, t) ==
    [IsFromSearch |-> isFromSearch, SearchEngine |-> engine, MatchedPattern |-> pattern,
     Confidence |-> confidence, ReferrerType |-> referrerType, Timestamp |-> t]

\* ReferrerChecker.classifyUnknownReferrer
socialDomains ==
    {"facebook.com", "twitter.com", "x.com", "instagram.com", "linkedin.com",
     "pinterest.com", "reddit.com", "tiktok.com", "snapchat.com", "whatsapp.com",
     "telegram.org", "vk.com", "ok.ru", "youtube.com", "twitch.tv"}
classifyUnknownReferrer(hostname) ==
    IF \E domain \in socialDomains :
          hostname = domain \/ HasSuffix(hostname, "." \o domain)
    THEN "social_media" ELSE "direct_link"

\* ReferrerChecker.performCheck below its read lock, for an URL that parses
MatchDomains(c, hostname, t) ==
    LET Wild(pattern) == matchWildcard(hostname, pattern)
        Rx(rx)        == MatchString(rx, hostname)
        w == FirstIndex(c.wildcardDomains, Wild)
        r == FirstIndex(c.compiledPatterns, Rx)
    IN  IF hostname = "" THEN RefResult(FALSE, "", "", 100, "malformed", t)
        ELSE IF hostname \in c.exactDomains
        THEN RefResult(TRUE, identifySearchEngine(hostname), hostname, 100, "search_engine", t)
        ELSE IF w > 0
        THEN RefResult(TRUE, identifySearchEngine(hostname), c.wildcardDomains[w], 90,
                       "search_engine", t)
        ELSE IF r > 0
        THEN RefResult(TRUE, identifySearchEngine(hostname), c.compiledPatterns[r].src, 80,
                       "search_engine", t)
        ELSE RefResult(FALSE, "", "", 90, classifyUnknownReferrer(hostname), t)

\* ReferrerChecker.CheckReferrer called by goroutine g: a result, or the
\* goroutine waiting for rc.mutex for ever (incrementTotalChecks takes the write
\* lock; performCheck calls incrementMalformedURLs under its own read lock).
rcCheckReferrer(c, g, referrer, t) ==
    LET u    == urlHostname(referrer)
        held == RLock(c.mutex, g)
        res  == MatchDomains(c, ToLower(u.hostname), t)
        Out(blocked, r, mu, cache) ==
            [blocked |-> blocked, res |-> r, mutex |-> mu, cache |-> cache]
    IN  IF ~c.enabled THEN Out(FALSE, RefResult(TRUE, "", "", 0, "", 0), c.mutex, c.cache)
        ELSE IF ~CanLock(c.mutex)
        THEN Out(TRUE, RefResult(FALSE, "", "", 0, "", t), c.mutex, c.cache)
        ELSE IF referrer = ""
        THEN Out(FALSE, RefResult(FALSE, "", "", 100, "empty", t), c.mutex, c.cache)
        ELSE IF CachedFresh(c.cache, referrer, t)
        THEN Out(FALSE, c.cache[referrer], c.mutex, c.cache)
        ELSE IF u.err /\ ~CanLock(held)
        THEN Out(TRUE, RefResult(FALSE, "", "", 0, "", t), held,
                 CacheAfterLookup(c.cache, referrer, t))
        ELSE IF u.err
        THEN Out(FALSE, RefResult(FALSE, "", "", 100, "malformed", t), c.mutex,
                 MapPut(c.cache, referrer, RefResult(FALSE, "", "", 100, "malformed", t)))
        ELSE Out(FALSE, res, c.mutex, MapPut(c.cache, referrer, res))

(***************************************************************************)
(* ReverseDNSChecker (plugin.go).  CheckDNS is taken as one step: the job, *)
(* the worker that resolves it and the wait for its result are summarised  *)
(* by the outcomes the call can have.                                      *)
(***************************************************************************)
\* The DNS zone the resolver sees: PTR records and A records.
PTRRecords ==
    ("66.249.66.1" :> "crawl-66-249-66-1.googlebot.com.")
        @@ ("203.0.113.9" :> "fake.googlebot.com.")
        @@ ("198.51.100.4" :> "host4.example.net.")
ARecords ==
    ("crawl-66-249-66-1.googlebot.com" :> "66.249.66.1")
        @@ ("fake.googlebot.com" :> "192.0.2.99")
        @@ ("host4.example.net" :> "198.51.100.4")

\* initializeBotDomainPatterns, four of the search engine patterns
botDomainPatterns ==
    <<Compile(".*\\.googlebot\\.com$"), Compile(".*\\.google\\.com$"),
      Compile(".*\\.search\\.msn\\.com$"), Compile(".*\\.yandex\\.ru$")>>

\* determineBotTypeByHostname: TRUE when the type is not BotTypeUnknown
determineBotTypeByHostname(hostname) ==
    \E i \in 1..Len(botDomainPatterns) : MatchString(botDomainPatterns[i], ToLower(hostname))

\* verifyIPMatch
verifyIPMatch(originalIP, verifiedIP) ==
    \/ originalIP = verifiedIP
    \/ /\ ParseIP(originalIP).ok /\ ParseIP(verifiedIP).ok
       /\ ParseIP(originalIP).b = ParseIP(verifiedIP).b

\* DNSWorker.processJob with lookupHostname and lookupIP; `up` tells whether the
\* resolver answers at all
processJob(ip, up) ==
    LET hostname == TrimRight(PTRRecords[ip], ".")
        verified == ARecords[hostname]
    IN  IF ~up \/ ~Has(PTRRecords, ip)
        THEN [Error |-> TRUE, Hostname |-> "", VerifiedIP |-> "", IsValid |-> FALSE]
        ELSE IF ~Has(ARecords, hostname)
        THEN [Error |-> TRUE, Hostname |-> hostname, VerifiedIP |-> "", IsValid |-> FALSE]
        ELSE [Error |-> FALSE, Hostname |-> hostname, VerifiedIP |-> verified,
              IsValid |-> verifyIPMatch(ip, verified) /\ determineBotTypeByHostname(hostname)]

DNSNoBot(hostname, error, t) ==
    [IsBot |-> FALSE, Hostname |-> hostname, Confidence |-> 0, Error |-> error, Timestamp |-> t]

\* processDNSResult
processDNSResult(dnsResult, t) ==
    IF dnsResult.Error THEN DNSNoBot("", "lookup failed", t)
    ELSE IF dnsResult.IsValid
    THEN [IsBot |-> TRUE, Hostname |-> dnsResult.Hostname, Confidence |-> 95, Error |-> "",
          Timestamp |-> t]
    ELSE DNSNoBot(dnsResult.Hostname, "", t)

\* ReverseDNSChecker.CheckDNS: the outcomes of one call.  A disabled checker or an
\* empty address answers at once, a fresh cache entry is returned; otherwise the
\* job queue is full, or the job is enqueued and its result arrives or the wait
\* times out.  Every computed answer is cached.
rdnsCheckDNS(c, ip, t) ==
    LET cleanIP == extractIP(ip)
        Out(res, cache, enqueued) == [res |-> res, cache |-> cache, enqueued |-> enqueued]
        Cached(res, enqueued) == Out(res, MapPut(c.cache, cleanIP, res), enqueued)
    IN  IF ~c.enabled \/ ip = "" THEN {Out(DNSNoBot("", "", 0), c.cache, FALSE)}
        ELSE IF CachedFresh(c.cache, cleanIP, t) THEN {Out(c.cache[cleanIP], c.cache, FALSE)}
        ELSE {Cached(DNSNoBot("", "DNS queue full", t), FALSE),
              Cached(DNSNoBot("", "DNS timeout", t), TRUE)}
             \cup {Cached(processDNSResult(processJob(cleanIP, up), t), TRUE) : up \in BOOLEAN}

(***************************************************************************)
(* BotDetector (bot_detector.go)                                           *)
(***************************************************************************)
\* BotDetector.generateCacheKey
generateCacheKeyNoAgent(ip, userAgent) == ip \o "|"
generateCacheKey(ip, userAgent) == ip \o "|" \o userAgent

\* type DetectionResult; UserType by its String(): "bot", "from_search", "direct".
\* SearchEngine is Details["search_engine"], empty when the detail is absent.
DetectionResult(userType, method, confidence, pattern, searchEngine) ==
    [IsBot |-> userType = "bot", UserType |-> userType, DetectionMethod |-> method,
     Confidence |-> confidence, MatchedPattern |-> pattern, SearchEngine |-> searchEngine,
     Timestamp |-> 0]
NoResult == [IsBot |-> FALSE]

\* One checker consulted by performDetection and what it reported
Consulted(checker, isBot, confidence) ==
    [checker |-> checker, IsBot |-> isBot, Confidence |-> confidence]

\* The locals of goroutine g's DetectBot call, moved to position pc
At(g, pc, trace, enqueued, res) ==
    [pc |-> pc, req |-> th[g].req, key |-> th[g].key, trace |-> trace,
     enqueued |-> enqueued, res |-> res, ret |-> [done |-> FALSE]]

\* DetectBot, entry: the cache key and the read half of cache.Get(cacheKey)
DetectBot(g, ip, userAgent, referer) ==
    LET cacheKey == generateCacheKey(ip, userAgent)
    IN  /\ th[g].pc = "idle"
        /\ totalChecks < MaxChecks
        /\ totalChecks' = totalChecks + 1
        /\ th' = [th EXCEPT ![g] =
                     [pc |-> "db_get",
                      req |-> [ip |-> ip, userAgent |-> userAgent, referer |-> referer],
                      key |-> cacheKey,
                      entry |-> IF Has(store, cacheKey) THEN store[cacheKey] ELSE NoEntry,
                      live |-> Has(store, cacheKey),
                      ret |-> [done |-> FALSE]]]
        /\ UNCHANGED <<now, store, lastSet, cfg, uam, irc, rc, rdns, rl, pool,
                     heap, startTime, sweep, stats>>

\* DetectBot, the cache answer: the second half of cache.Get; a cached result
\* younger than CacheTTL is returned as it is, anything else starts performDetection.
DetectBotCached(g) ==
    LET t   == th[g]
        out == GetOutcome(t)
        hit == out.found /\ now - t.entry.Value.Timestamp < cfg.CacheTTL
    IN  /\ t.pc = "db_get"
        /\ store' = out.store
        /\ th' = Detach([th EXCEPT ![g] =
                    IF hit
                    THEN [pc |-> "idle",
                          ret |-> [done |-> TRUE, hit |-> TRUE, req |-> t.req,
                                   res |-> t.entry.Value, trace |-> <<>>,
                                   enqueued |-> FALSE]]
                    ELSE At(g, "ua", <<>>, FALSE, NoResult)], out.gone)
        /\ lastSet' = NoSet
        /\ stats' = IF hit THEN [stats EXCEPT !.cached = @ + 1] ELSE stats
        /\ UNCHANGED <<now, uncounted>>

\* performDetection after the User-Agent check: a bot ends the detection
AfterUserAgentAlways(uaResult) == "ip"
AfterUserAgent(uaResult) == IF uaResult.IsBot THEN "store" ELSE "ip"

\* performDetection, 1: userAgentMatcher.IsBot
CheckUserAgent(g) ==
    LET t   == th[g]
        out == uamIsBot(uam, t.req.userAgent, now)
        res == IF out.res.IsBot
               THEN DetectionResult("bot", "user_agent", out.res.Confidence,
                                    out.res.MatchedPattern, "")
               ELSE NoResult
    IN  /\ t.pc = "ua"
        /\ uam' = [uam EXCEPT !.cache = out.cache]
        /\ th' = [th EXCEPT ![g] =
                     At(g, AfterUserAgent(out.res),
                        Append(t.trace, Consulted("user_agent", out.res.IsBot,
                                                  out.res.Confidence)),
                        FALSE, res)]
        /\ UNCHANGED <<now, store, lastSet, cfg, totalChecks, irc, rc, rdns, rl, pool,
                     heap, startTime, sweep, stats>>

\* performDetection, 2: ipRangeChecker.IsBot; when it returns without a bot the
\* reverse DNS check follows if config.EnableReverseDNS, else determineUserType
CheckIPRange(g) ==
    LET t   == th[g]
        out == ircIsBot(irc, g, t.req.ip, now)
        tr  == Append(t.trace, Consulted("ip_range", ~out.blocked /\ out.res.IsBot,
                                         out.res.Confidence))
    IN  /\ t.pc = "ip"
        /\ irc' = [irc EXCEPT !.mutex = out.mutex, !.cache = out.cache,
                              !.invalidIPs = out.invalidIPs]
        /\ th' = [th EXCEPT ![g] =
                     IF out.blocked THEN At(g, "blocked", tr, FALSE, NoResult)
                     ELSE IF out.res.IsBot
                     THEN At(g, "store", tr, FALSE,
                             DetectionResult("bot", "ip_range", out.res.Confidence,
                                             out.res.MatchedRange, ""))
                     ELSE At(g, IF cfg.EnableReverseDNS THEN "dns" ELSE "ref", tr, FALSE,
                             NoResult)]
        /\ UNCHANGED <<now, store, lastSet, cfg, totalChecks, uam, rc, rdns, rl, pool,
                     heap, startTime, sweep, stats>>

\* performDetection, 3: reverseDNSChecker.CheckDNS
CheckReverseDNS(g) ==
    LET t == th[g]
    IN  /\ t.pc = "dns"
        /\ \E out \in rdnsCheckDNS(rdns, t.req.ip, now) :
              LET tr == Append(t.trace, Consulted("reverse_dns", out.res.IsBot,
                                                  out.res.Confidence))
              IN  /\ rdns' = [rdns EXCEPT !.cache = out.cache]
                  /\ th' = [th EXCEPT ![g] =
                               IF out.res.IsBot
                               THEN At(g, "store", tr, out.enqueued,
                                       DetectionResult("bot", "reverse_dns",
                                                       out.res.Confidence,
                                                       out.res.Hostname, ""))
                               ELSE At(g, "ref", tr, out.enqueued, NoResult)]
        /\ UNCHANGED <<now, store, lastSet, cfg, totalChecks, uam, irc, rc, rl, pool,
                     heap, startTime, sweep, stats>>

\* determineUserType: the referrer check when config.EnableReferrerCheck, else
\* the fallback on the presence of a Referer header
DetermineUserType(g) ==
    LET t   == th[g]
        out == rcCheckReferrer(rc, g, t.req.referer, now)
        tr  == Append(t.trace, Consulted("referrer", FALSE, out.res.Confidence))
    IN  /\ t.pc = "ref"
        /\ IF cfg.EnableReferrerCheck
           THEN /\ rc' = [rc EXCEPT !.mutex = out.mutex, !.cache = out.cache]
                /\ th' = [th EXCEPT ![g] =
                             IF out.blocked THEN At(g, "blocked", tr, t.enqueued, NoResult)
                             ELSE IF out.res.IsFromSearch
                             THEN At(g, "store", tr, t.enqueued,
                                     DetectionResult("from_search", "referrer",
                                                     out.res.Confidence,
                                                     out.res.MatchedPattern,
                                                     out.res.SearchEngine))
                             ELSE At(g, "store", tr, t.enqueued,
                                     DetectionResult("direct", "referrer",
                                                     out.res.Confidence, "", ""))]
           ELSE /\ rc' = rc
                /\ th' = [th EXCEPT ![g] =
                             IF t.req.referer = ""
                             THEN At(g, "store", t.trace, t.enqueued,
                                     DetectionResult("direct", "fallback", 80, "", ""))
                             ELSE At(g, "store", t.trace, t.enqueued,
                                     DetectionResult("from_search", "fallback", 60, "", ""))]
        /\ UNCHANGED <<now, store, lastSet, cfg, totalChecks, uam, irc, rdns, rl, pool,
                     heap, startTime, sweep, stats>>

\* DetectBot, the end: the result is stamped, stored with
\* cache.SetWithTTL(cacheKey, result, config.CacheTTL) and returned
DetectBotReturn(g) ==
    LET t      == th[g]
        result == [t.res EXCEPT !.Timestamp = now]
    IN  /\ t.pc = "store"
        /\ \E st \in SetOutcomes(store, t.key, result, cfg.CacheTTL, now) :
              /\ store' = st
              /\ th' = Detach([th EXCEPT ![g] =
                          [pc |-> "idle",
                           ret |-> [done |-> TRUE, hit |-> FALSE, req |-> t.req,
                                    res |-> result, trace |-> t.trace,
                                    enqueued |-> t.enqueued]]],
                          Changed(store, st) \cup {t.key})
        /\ lastSet' = [ok |-> TRUE, key |-> t.key, value |-> result,
                       ttl |-> cfg.CacheTTL,
                       at |-> now]
        /\ stats' = updateStatistics(stats, result.UserType)
        /\ UNCHANGED <<now, uncounted>>

Tick == /\ now < MaxTime
        /\ now' = now + 1
        /\ UNCHANGED <<store, th, lastSet, detector>>

CacheKeys == {"", "a"}
CacheValues == {"v1", "v2"}
CacheTTLs == {0, 1}

\* A cache on its own: NewCache, with no detection engine around it.
InitCache ==
    /\ now = 0
    /\ store = EmptyMap
    /\ th = [g \in Goroutines |-> [pc |-> "idle", ret |-> [done |-> FALSE]]]
    /\ lastSet = NoSet
    /\ heap = <<>>
    /\ startTime = [g \in Goroutines |-> 0]
    /\ sweep = startCleanup
    /\ stats = NoStats
    /\ cfg = [EnableReverseDNS |-> FALSE, EnableReferrerCheck |-> FALSE, BotUserAgents |-> <<>>,
             CacheTTL |-> CacheTTL]
    /\ totalChecks = 0
    /\ uam = NoPatterns
    /\ irc = [mutex |-> FreeMutex]
    /\ rc = [enabled |-> FALSE]
    /\ rdns = [enabled |-> FALSE]
    /\ rl = [enabled |-> FALSE]
    /\ pool = [enabled |-> FALSE]

\* The configurations and the requests of the model
Googlebot == "Mozilla/5.0 (compatible; Googlebot/2.1; +http://www.google.com/bot.html)"
BotUserAgentLists == {<<"googlebot">>, <<"*googlebot*">>, <<"googlebot/.*">>}
BotIPRanges == <<"10.0.0.0/8", "192.0.2.7", "10.1.0.0/16">>
AllowedReferrers == <<"google.com", "*.google.com">>
ClientIPs == {"", "10.1.2.3:8080", "66.249.66.1:443"}
UserAgents == {"", Googlebot, "GoogleBot"}
Referers == {"", "https://www.google.com/search?q=test", "https://example.org/page"}

\* NewBotDetector on a configuration
NewBotDetector(config) ==
    /\ now = 0
    /\ store = EmptyMap
    /\ th = [g \in Goroutines |-> [pc |-> "idle", ret |-> [done |-> FALSE]]]
    /\ lastSet = NoSet
    /\ heap = <<>>
    /\ startTime = [g \in Goroutines |-> 0]
    /\ sweep = startCleanup
    /\ stats = NoStats
    /\ cfg = config
    /\ totalChecks = 0
    /\ uam = uamInitializePatterns(config.BotUserAgents, NoPatterns)
             @@ [botPatterns |-> config.BotUserAgents, cache |-> EmptyMap]
    /\ irc = initializeRanges(BotIPRanges)
             @@ [mutex |-> FreeMutex, cache |-> EmptyMap, invalidIPs |-> 0]
    /\ rc = (IF config.EnableReferrerCheck
             THEN rcInitializePatterns(AllowedReferrers, NoDomains)
             ELSE NoDomains)
            @@ [enabled |-> config.EnableReferrerCheck, mutex |-> FreeMutex,
                cache |-> EmptyMap]
    /\ rdns = [enabled |-> config.EnableReverseDNS, cache |-> EmptyMap]
    /\ rl = [enabled |-> FALSE]
    /\ pool = [enabled |-> FALSE]

\* The configurations the engine is built on
Configs ==
    [EnableReverseDNS : BOOLEAN, EnableReferrerCheck : BOOLEAN,
     BotUserAgents : BotUserAgentLists, CacheTTL : {CacheTTL}]

Init == \E config \in Configs : NewBotDetector(config)

Next ==
    \/ Tick
    \/ cleanup
    \/ \E g \in Goroutines, ip \in ClientIPs, ua \in UserAgents, ref \in Referers :
          DetectBot(g, ip, ua, ref)
    \/ \E g \in Goroutines : DetectBotCached(g)
    \/ \E g \in Goroutines : CheckUserAgent(g)
    \/ \E g \in Goroutines : CheckIPRange(g)
    \/ \E g \in Goroutines : CheckReverseDNS(g)
    \/ \E g \in Goroutines : DetermineUserType(g)
    \/ \E g \in Goroutines : DetectBotReturn(g)

Spec == Init /\ [][Next]_vars

NextCache ==
    \/ Tick
    \/ \E k \in CacheKeys, v \in CacheValues, ttl \in CacheTTLs : SetWithTTL(k, v, ttl)
    \/ \E k \in CacheKeys, v \in CacheValues : Set(k, v)
    \/ \E k \in CacheKeys : Delete(k)
    \/ Clear
    \/ cleanup
    \/ \E g \in Goroutines, k \in CacheKeys : GetRead(g, k)
    \/ \E g \in Goroutines : GetReturn(g)

SpecCache == InitCache /\ [][NextCache]_vars

(***************************************************************************)
(* A cache with room for more than one entry, so that a Set of a key that  *)
(* is in the store meets a store that is full with other keys in it.       *)
(***************************************************************************)
Roomy == MaxCacheSize + 1
RoomyKeys == {"a", "b"}

NextRoomy ==
    \/ Tick
    \/ \E k \in RoomyKeys, v \in CacheValues, ttl \in CacheTTLs :
          SetWithTTLOf(Roomy, k, v, ttl)
    \/ \E k \in RoomyKeys : Delete(k)
    \/ \E g \in Goroutines, k \in RoomyKeys : GetRead(g, k)
    \/ \E g \in Goroutines : GetReturn(g)

SpecRoomy == InitCache /\ [][NextRoomy]_vars

(***************************************************************************)
(* The cache's background sweep and Cache.StopCleanup.                     *)
(***************************************************************************)
\* the state of the model outside the sweep task
aroundSweep ==
    <<now, store, lastSet, cfg, totalChecks, uam, irc, rc, rdns, rl, pool, heap, startTime,
      stats>>

\* a send with a default case on the channel with a buffer of one
TrySend(chan) == IF chan < 1 THEN chan + 1 ELSE chan

\* StopCleanup with a send that has no default case: it waits for room
StopCleanupBlocking(g) ==
    /\ th[g].pc = "idle"
    /\ sweep.isRunning => sweep.stopCleanup < 1
    /\ sweep' = IF sweep.isRunning THEN [sweep EXCEPT !.stopCleanup = @ + 1] ELSE sweep
    /\ th' = [th EXCEPT ![g] = [pc |-> "idle", ret |-> [done |-> TRUE, call |-> "StopCleanup"]]]
    /\ UNCHANGED aroundSweep

\* Cache.StopCleanup: c.isRunning is read without synchronisation, so when the
\* task has written it on its way out the caller may see either value; the send
\* has a default case
StopCleanup(g) ==
    /\ th[g].pc = "idle"
    /\ \E isRunning \in (IF sweep.pc = "exited" THEN BOOLEAN ELSE {sweep.isRunning}) :
          sweep' = IF isRunning THEN [sweep EXCEPT !.stopCleanup = TrySend(@)] ELSE sweep
    /\ th' = [th EXCEPT ![g] = [pc |-> "idle", ret |-> [done |-> TRUE, call |-> "StopCleanup"]]]
    /\ UNCHANGED aroundSweep

\* the sweep task takes the stopCleanup case of its select and returns
sweepStop ==
    /\ sweep.pc = "select"
    /\ sweep.stopCleanup > 0
    /\ sweep' = [isRunning |-> FALSE, stopCleanup |-> sweep.stopCleanup - 1, pc |-> "exited"]
    /\ UNCHANGED <<th, aroundSweep>>

NextSweep ==
    \/ Tick
    \/ \E k \in CacheKeys, v \in CacheValues, ttl \in CacheTTLs : SetWithTTL(k, v, ttl)
    \/ cleanup
    \/ \E g \in Goroutines : StopCleanup(g)
    \/ sweepStop

SpecSweep == InitCache /\ [][NextSweep]_vars

\* The select of the sweep task takes a case that is ready again and again
SpecSweepLive == SpecSweep /\ SF_vars(sweepStop)

(***************************************************************************)
(* Runtime changes of the rule set: UserAgentMatcher.AddPattern and        *)
(* RemovePattern (config.go), next to the DetectBot calls they serve.      *)
(***************************************************************************)
MaxPatterns == 2

\* the state the model keeps of what happens outside the User-Agent matcher
aroundMatcher ==
    <<now, store, th, lastSet, cfg, totalChecks, irc, rc, rdns, rl, pool, heap, startTime, sweep, stats>>

aroundMatcher_th ==
    <<now, store, lastSet, cfg, totalChecks, irc, rc, rdns, rl, pool, heap, startTime, sweep, stats>>

\* UserAgentMatcher.AddPattern: the pattern joins the list and its tier; the
\* matcher's own result cache is emptied unless the pattern does not compile
AddPattern(pattern) ==
    LET rx     == Compile("(?i)" \o pattern)
        listed == [uam EXCEPT !.botPatterns = Append(@, pattern)]
        failed == ~isExactMatch(pattern) /\ ~isSimpleContains(pattern) /\ ~rx.ok
    IN  /\ Len(uam.botPatterns) < MaxPatterns
        /\ uam' = IF pattern = "" THEN uam
                  ELSE IF failed THEN listed
                  ELSE [uamInitializePatterns(<<pattern>>, listed) EXCEPT !.cache = EmptyMap]
        /\ UNCHANGED aroundMatcher

\* the list without the first occurrence of pattern
RECURSIVE Without(_, _)
Without(patterns, pattern) ==
    IF patterns = <<>> THEN <<>>
    ELSE IF Head(patterns) = pattern THEN Tail(patterns)
    ELSE <<Head(patterns)>> \o Without(Tail(patterns), pattern)

\* UserAgentMatcher.RemovePattern: the tiers are rebuilt from the remaining
\* patterns by initializePatterns; the result cache is left as it is
RemovePattern(pattern) ==
    LET remaining == Without(uam.botPatterns, pattern)
    IN  /\ uam' = uamInitializePatterns(remaining, NoPatterns)
                    @@ [botPatterns |-> SelectSeq(remaining, LAMBDA q : q # ""),
                        cache |-> uam.cache]
        /\ UNCHANGED aroundMatcher

\* The patterns added and removed at run time, and the requests served meanwhile
RulePatterns == {"googlebot", "*googlebot*"}
RuleAgents == {Googlebot, "GoogleBot"}

NextRules ==
    \/ Tick
    \/ \E pattern \in RulePatterns : AddPattern(pattern)
    \/ \E pattern \in RulePatterns : RemovePattern(pattern)
    \/ \E g \in Goroutines, ua \in RuleAgents : DetectBot(g, "", ua, "")
    \/ \E g \in Goroutines : DetectBotCached(g)
    \/ \E g \in Goroutines : CheckUserAgent(g)
    \/ \E g \in Goroutines : CheckIPRange(g)
    \/ \E g \in Goroutines : CheckReverseDNS(g)
    \/ \E g \in Goroutines : DetermineUserType(g)
    \/ \E g \in Goroutines : DetectBotReturn(g)

SpecRules == Init /\ [][NextRules]_vars

(***************************************************************************)
(* The UserAgentMatcher called on its own: IsBot next to AddPattern and    *)
(* RemovePattern.                                                          *)
(***************************************************************************)
\* UserAgentMatcher.IsBot is called by goroutine g
MatcherIsBot(g, userAgent) ==
    /\ th[g].pc = "idle"
    /\ th' = [th EXCEPT ![g] = [pc |-> "uam_isbot", userAgent |-> userAgent,
                                ret |-> [done |-> FALSE]]]
    /\ UNCHANGED <<uam, aroundMatcher_th>>

\* ... and returns: the cached result or performCheck's, which is cached
MatcherIsBotReturn(g) ==
    LET t   == th[g]
        out == uamIsBot(uam, t.userAgent, now)
    IN  /\ t.pc = "uam_isbot"
        /\ uam' = [uam EXCEPT !.cache = out.cache]
        /\ th' = [th EXCEPT ![g] = [pc |-> "idle",
                                    ret |-> [done |-> TRUE, userAgent |-> t.userAgent,
                                             res |-> out.res]]]
        /\ UNCHANGED aroundMatcher_th

NextMatcher ==
    \/ Tick
    \/ \E pattern \in RulePatterns : AddPattern(pattern)
    \/ \E pattern \in RulePatterns : RemovePattern(pattern)
    \/ \E g \in Goroutines, ua \in UserAgents : MatcherIsBot(g, ua)
    \/ \E g \in Goroutines : MatcherIsBotReturn(g)

SpecMatcher == Init /\ [][NextMatcher]_vars

(***************************************************************************)
(* RemovePattern in its two critical sections: it takes the pattern off    *)
(* the list and copies the list under uam.mutex, releases the mutex, and   *)
(* has initializePatterns rebuild the matcher from the copy under the      *)
(* mutex again.  Other calls run in between.                               *)
(***************************************************************************)
\* RemovePattern up to its uam.mutex.Unlock: the list without the pattern, and
\* the copy of it that the goroutine carries on
RemovePatternCopy(g, pattern) ==
    LET remaining == Without(uam.botPatterns, pattern)
    IN  /\ th[g].pc = "idle"
        /\ uam' = [uam EXCEPT !.botPatterns = remaining]
        /\ th' = [th EXCEPT ![g] = [pc |-> "remove_init", pattern |-> pattern,
                                    patterns |-> remaining, ret |-> [done |-> FALSE]]]
        /\ UNCHANGED aroundMatcher_th

\* ... and from there: initializePatterns(patterns) replaces the list and the
\* tiers by what the copy holds; RemovePattern returns
RemovePatternInit(g) ==
    LET t == th[g]
    IN  /\ t.pc = "remove_init"
        /\ uam' = uamInitializePatterns(t.patterns, NoPatterns)
                    @@ [botPatterns |-> SelectSeq(t.patterns, LAMBDA q : q # ""),
                        cache |-> uam.cache]
        /\ th' = [th EXCEPT ![g] = [pc |-> "idle", ret |-> [done |-> FALSE]]]
        /\ UNCHANGED aroundMatcher_th

NextPatterns ==
    \/ Tick
    \/ \E pattern \in RulePatterns : AddPattern(pattern)
    \/ \E g \in Goroutines, pattern \in RulePatterns : RemovePatternCopy(g, pattern)
    \/ \E g \in Goroutines : RemovePatternInit(g)
    \/ \E g \in Goroutines, ua \in RuleAgents : MatcherIsBot(g, ua)
    \/ \E g \in Goroutines : MatcherIsBotReturn(g)

SpecPatterns == Init /\ [][NextPatterns]_vars

(***************************************************************************)
(* The IPRangeChecker called on its own: IsBot next to AddRange and        *)
(* RemoveRange.                                                            *)
(***************************************************************************)
MaxRanges == 4

aroundRanges ==
    <<now, store, lastSet, cfg, totalChecks, uam, rc, rdns, rl, pool, heap, startTime, sweep, stats>>

\* net.IPNet.String of a network of either list
NetText(net) ==
    IF "text" \in DOMAIN net THEN net.text \o "/" \o Itoa(net.ones) ELSE NetString(net)

\* The return of a call of the checker's interface
Answer(call, arg, ok) ==
    [pc |-> "idle", ret |-> [done |-> TRUE, call |-> call, arg |-> arg, ok |-> ok]]

\* IPRangeChecker.AddRange up to its call of sortNetworks: under the write lock the
\* single address joins its set, the network is appended to its list.  An empty,
\* unparseable or single-address argument ends the call here.
AddRange(g, rangeStr) ==
    LET ip    == ParseIP(rangeStr)
        net   == ParseCIDR(rangeStr)
        net6  == ParseCIDR6(rangeStr)
        fails == IF Contains(rangeStr, "/") THEN ~net.ok /\ ~net6.ok ELSE ~ip.ok
    IN  /\ th[g].pc = "idle"
        /\ Len(irc.ipv4Networks) + Len(irc.ipv6Networks) < MaxRanges
        /\ IF rangeStr = ""
           THEN /\ th' = [th EXCEPT ![g] = Answer("AddRange", rangeStr, FALSE)]
                /\ irc' = irc
           ELSE /\ CanLock(irc.mutex)
                /\ IF fails
                   THEN /\ th' = [th EXCEPT ![g] = Answer("AddRange", rangeStr, FALSE)]
                        /\ irc' = irc
                   ELSE IF ~Contains(rangeStr, "/")
                   THEN /\ th' = [th EXCEPT ![g] = Answer("AddRange", rangeStr, TRUE)]
                        /\ irc' = [irc EXCEPT !.singleIPv4 = @ \cup {rangeStr},
                                              !.cache = EmptyMap]
                   ELSE /\ th' = [th EXCEPT ![g] = [pc |-> "add_sort", arg |-> rangeStr,
                                                    ret |-> [done |-> FALSE]]]
                        /\ irc' = IF net.ok
                                  THEN [irc EXCEPT !.ipv4Networks = Append(@, net),
                                                   !.mutex.writer = g]
                                  ELSE [irc EXCEPT !.ipv6Networks = Append(@, net6),
                                                   !.mutex.writer = g]
        /\ UNCHANGED aroundRanges

\* IPRangeChecker.AddRange from sortNetworks on: both lists are sorted, the result
\* cache is replaced by an empty one, the write lock is released
AddRangeSort(g) ==
    /\ th[g].pc = "add_sort"
    /\ irc' = [irc EXCEPT !.ipv4Networks = sortNetworks(@),
                          !.ipv6Networks = sortNetworks(@),
                          !.cache = EmptyMap,
                          !.mutex.writer = 0]
    /\ th' = [th EXCEPT ![g] = Answer("AddRange", th[g].arg, TRUE)]
    /\ UNCHANGED aroundRanges

\* the list without the first network whose String() is rangeStr
RECURSIVE WithoutNetwork(_, _)
WithoutNetwork(nets, rangeStr) ==
    IF nets = <<>> THEN <<>>
    ELSE IF NetText(Head(nets)) = rangeStr THEN Tail(nets)
    ELSE <<Head(nets)>> \o WithoutNetwork(Tail(nets), rangeStr)

\* IPRangeChecker.RemoveRange, the whole call under the write lock
RemoveRange(g, rangeStr) ==
    LET ip    == ParseIP(rangeStr)
        net   == ParseCIDR(rangeStr)
        net6  == ParseCIDR6(rangeStr)
        fails == IF Contains(rangeStr, "/") THEN ~net.ok /\ ~net6.ok ELSE ~ip.ok
    IN  /\ th[g].pc = "idle"
        /\ CanLock(irc.mutex)
        /\ th' = [th EXCEPT ![g] = Answer("RemoveRange", rangeStr, ~fails)]
        /\ irc' = IF fails THEN irc
                  ELSE IF ~Contains(rangeStr, "/")
                  THEN [irc EXCEPT !.singleIPv4 = @ \ {rangeStr}, !.cache = EmptyMap]
                  ELSE IF net.ok
                  THEN [irc EXCEPT !.ipv4Networks = WithoutNetwork(@, rangeStr),
                                   !.cache = EmptyMap]
                  ELSE [irc EXCEPT !.ipv6Networks = WithoutNetwork(@, rangeStr),
                                   !.cache = EmptyMap]
        /\ UNCHANGED aroundRanges

\* IPRangeChecker.IsBot is called by goroutine g
RangeIsBot(g, ipStr) ==
    /\ th[g].pc = "idle"
    /\ th' = [th EXCEPT ![g] = [pc |-> "irc_isbot", arg |-> ipStr,
                                ret |-> [done |-> FALSE]]]
    /\ UNCHANGED <<irc, aroundRanges>>

\* ... and returns its result, or waits for irc.mutex for ever
RangeIsBotReturn(g) ==
    LET t   == th[g]
        out == ircIsBot(irc, g, t.arg, now)
    IN  /\ t.pc = "irc_isbot"
        /\ irc' = [irc EXCEPT !.mutex = out.mutex, !.cache = out.cache,
                              !.invalidIPs = out.invalidIPs]
        /\ th' = [th EXCEPT ![g] =
                     IF out.blocked
                     THEN [pc |-> "blocked", arg |-> t.arg, ret |-> [done |-> FALSE]]
                     ELSE [pc |-> "idle",
                           ret |-> [done |-> TRUE, call |-> "IsBot", arg |-> t.arg,
                                    ok |-> TRUE, res |-> out.res]]]
        /\ UNCHANGED aroundRanges

\* The ranges added and removed at run time and the addresses asked for
RangeArgs ==
    {"", "10.1.2.0/24", "10.1.0.0/33", "192.0.2.8", "2001:db8::/32", "2001:db8:1::/48",
     "10.0.0.0/8", "10.1.2.9/24"}
RangeClients == {"", "10.1.2.3:8080", "192.0.2.8"}

InitRanges ==
    \E config \in Configs :
        /\ ~config.EnableReverseDNS /\ ~config.EnableReferrerCheck
        /\ config.BotUserAgents = <<"googlebot">>
        /\ NewBotDetector(config)

NextRanges ==
    \/ Tick
    \/ \E g \in Goroutines, rangeStr \in RangeArgs : AddRange(g, rangeStr)
    \/ \E g \in Goroutines : AddRangeSort(g)
    \/ \E g \in Goroutines, rangeStr \in RangeArgs : RemoveRange(g, rangeStr)
    \/ \E g \in Goroutines, ipStr \in RangeClients : RangeIsBot(g, ipStr)
    \/ \E g \in Goroutines : RangeIsBotReturn(g)

SpecRanges == InitRanges /\ [][NextRanges]_vars

(***************************************************************************)
(* DetectBot on a configuration whose CacheTTL is longer than one tick of  *)
(* the clock, so that a stored result can lose its place in the cache to   *)
(* another request's result while it is still fresh.                       *)
(***************************************************************************)
LongLived == {[config EXCEPT !.CacheTTL = CacheTTL + 1] : config \in Configs}

InitHits == \E config \in LongLived : NewBotDetector(config)

NextHits ==
    \/ Tick
    \/ cleanup
    \/ \E g \in Goroutines, ua \in RuleAgents : DetectBot(g, "", ua, "")
    \/ \E g \in Goroutines : DetectBotCached(g)
    \/ \E g \in Goroutines : CheckUserAgent(g)
    \/ \E g \in Goroutines : CheckIPRange(g)
    \/ \E g \in Goroutines : CheckReverseDNS(g)
    \/ \E g \in Goroutines : DetermineUserType(g)
    \/ \E g \in Goroutines : DetectBotReturn(g)

SpecHits == InitHits /\ [][NextHits]_vars

(***************************************************************************)
(* DetectBot on requests that reach determineUserType (no address, no      *)
(* User-Agent), with the Referer headers a client can send: none, a search *)
(* engine's, another site's, one that url.Parse rejects and one that has   *)
(* no host.                                                                *)
(***************************************************************************)
AnyReferers == Referers \cup {":", "/page"}

NextReferrers ==
    \/ Tick
    \/ \E g \in Goroutines, ref \in AnyReferers : DetectBot(g, "", "", ref)
    \/ \E g \in Goroutines : DetectBotCached(g)
    \/ \E g \in Goroutines : CheckUserAgent(g)
    \/ \E g \in Goroutines : CheckIPRange(g)
    \/ \E g \in Goroutines : CheckReverseDNS(g)
    \/ \E g \in Goroutines : DetermineUserType(g)
    \/ \E g \in Goroutines : DetectBotReturn(g)

SpecReferrers == Init /\ [][NextReferrers]_vars

(***************************************************************************)
(* DetectBot on requests whose RemoteAddr holds no IP address.             *)
(***************************************************************************)
NoAddresses == {"", "not-an-ip", "256.1.1.1:80"}

NextAddresses ==
    \/ Tick
    \/ \E g \in Goroutines, ip \in NoAddresses : DetectBot(g, ip, "", "")
    \/ \E g \in Goroutines : DetectBotCached(g)
    \/ \E g \in Goroutines : CheckUserAgent(g)
    \/ \E g \in Goroutines : CheckIPRange(g)
    \/ \E g \in Goroutines : CheckReverseDNS(g)
    \/ \E g \in Goroutines : DetermineUserType(g)
    \/ \E g \in Goroutines : DetectBotReturn(g)

SpecAddresses == Init /\ [][NextAddresses]_vars

(***************************************************************************)
(* DetectBot with its results as the *DetectionResult objects they are:    *)
(* heap[p] is the object at address p, the cache entry's Value and the     *)
(* value a call returns are addresses.  performDetection is as above.      *)
(***************************************************************************)
\* DetectBot, entry: startTime := time.Now(), the cache key, the read half of Get
DetectBotPtr(g, ip, userAgent, referer) ==
    LET cacheKey == generateCacheKey(ip, userAgent)
    IN  /\ th[g].pc = "idle"
        /\ totalChecks < MaxChecks
        /\ totalChecks' = totalChecks + 1
        /\ startTime' = [startTime EXCEPT ![g] = now]
        /\ th' = [th EXCEPT ![g] =
                     [pc |-> "db_get",
                      req |-> [ip |-> ip, userAgent |-> userAgent, referer |-> referer],
                      key |-> cacheKey,
                      entry |-> IF Has(store, cacheKey) THEN store[cacheKey] ELSE NoEntry,
                      live |-> Has(store, cacheKey),
                      ret |-> [done |-> FALSE]]]
        /\ UNCHANGED <<now, store, lastSet, cfg, uam, irc, rc, rdns, rl, pool, heap, sweep, stats>>

\* DetectBot, the cache answer: result is the cached pointer; when the object it
\* points to is younger than CacheTTL, result.ProcessingTime is assigned and the
\* pointer is returned
DetectBotCachedPtr(g) ==
    LET t      == th[g]
        out    == GetOutcome(t)
        result == t.entry.Value
        hit    == out.found /\ now - heap[result].Timestamp < cfg.CacheTTL
    IN  /\ t.pc = "db_get"
        /\ store' = out.store
        /\ heap' = IF hit
                   THEN [heap EXCEPT ![result].ProcessingTime = now - startTime[g]]
                   ELSE heap
        /\ th' = Detach([th EXCEPT ![g] =
                    IF hit
                    THEN [pc |-> "idle",
                          ret |-> [done |-> TRUE, hit |-> TRUE, req |-> t.req,
                                   res |-> result, trace |-> <<>>, enqueued |-> FALSE]]
                    ELSE At(g, "ua", <<>>, FALSE, NoResult)], out.gone)
        /\ lastSet' = NoSet
        /\ stats' = IF hit THEN [stats EXCEPT !.cached = @ + 1] ELSE stats
        /\ UNCHANGED <<now, cfg, totalChecks, uam, irc, rc, rdns, rl, pool, startTime, sweep>>

\* DetectBot, the end: performDetection's new object gets its ProcessingTime and
\* Timestamp, its pointer is stored in the cache and returned
DetectBotReturnPtr(g) ==
    LET t      == th[g]
        result == Len(heap) + 1
        object == [t.res EXCEPT !.Timestamp = now]
                     @@ [ProcessingTime |-> now - startTime[g]]
    IN  /\ t.pc = "store"
        /\ heap' = Append(heap, object)
        /\ \E st \in SetOutcomes(store, t.key, result, cfg.CacheTTL, now) :
              /\ store' = st
              /\ th' = Detach([th EXCEPT ![g] =
                          [pc |-> "idle",
                           ret |-> [done |-> TRUE, hit |-> FALSE, req |-> t.req,
                                    res |-> result, trace |-> t.trace,
                                    enqueued |-> t.enqueued]]],
                          Changed(store, st) \cup {t.key})
        /\ lastSet' = [ok |-> TRUE, key |-> t.key, value |-> result,
                       ttl |-> cfg.CacheTTL, at |-> now]
        /\ stats' = updateStatistics(stats, object.UserType)
        /\ UNCHANGED <<now, cfg, totalChecks, uam, irc, rc, rdns, rl, pool, startTime, sweep>>

NextResults ==
    \/ Tick
    \/ \E g \in Goroutines, ua \in RuleAgents : DetectBotPtr(g, "", ua, "")
    \/ \E g \in Goroutines : DetectBotCachedPtr(g)
    \/ \E g \in Goroutines : CheckUserAgent(g)
    \/ \E g \in Goroutines : CheckIPRange(g)
    \/ \E g \in Goroutines : CheckReverseDNS(g)
    \/ \E g \in Goroutines : DetermineUserType(g)
    \/ \E g \in Goroutines : DetectBotReturnPtr(g)

SpecResults == InitHits /\ [][NextResults]_vars

(***************************************************************************)
(* RateLimiter and TokenBucket (plugin.go).  In this part of the model one *)
(* clock tick is half a second, and Go's int is IntBits wide.              *)
(***************************************************************************)
\* time.Second in clock ticks
Second == 2
\* The width of int, scaled down from 64
IntBits == 3
MaxInt == 2^(IntBits - 1) - 1
\* the int that an addition or multiplication of ints yields
WrapInt(x) == ((x + 2^(IntBits - 1)) % 2^IntBits) - 2^(IntBits - 1)

\* the state the model keeps of what happens outside the rate limiter
aroundLimiter ==
    <<store, th, lastSet, cfg, totalChecks, uam, irc, rc, rdns, pool, heap, startTime, sweep, stats>>

\* Config.RateLimitWindow of DefaultConfig (1 * time.Minute), scaled to one clock tick
RateLimitWindow == 1

\* the TokenBucket that checkTokenBucket creates for a new address
TokenBucket(maxRate, t) ==
    [capacity |-> maxRate, tokens |-> maxRate, refillRate |-> maxRate, lastRefill |-> t]

\* TokenBucket.refill at clock reading t
refill(tb, t) ==
    LET elapsed     == t - tb.lastRefill
        seconds     == elapsed \div Second
        tokensToAdd == WrapInt(seconds * tb.refillRate)
        tokens      == WrapInt(tb.tokens + tokensToAdd)
    IN  IF elapsed >= Second
        THEN [tb EXCEPT !.tokens = IF tokens > tb.capacity THEN tb.capacity ELSE tokens,
                        !.lastRefill = t]
        ELSE tb

\* TokenBucket.allowRequest: the answer and the bucket afterwards
allowRequest(tb, t) ==
    LET filled == refill(tb, t)
    IN  IF filled.tokens > 0
        THEN [allowed |-> TRUE, bucket |-> [filled EXCEPT !.tokens = @ - 1]]
        ELSE [allowed |-> FALSE, bucket |-> filled]

\* checkTokenBucket with a map that keeps the bucket of the call alone
checkTokenBucketAlone(ip, maxRate, buckets, t) ==
    LET bucket == IF Has(buckets, ip) THEN buckets[ip] ELSE TokenBucket(maxRate, t)
        out    == allowRequest(bucket, t)
    IN  [allowed |-> out.allowed,
         buckets |-> MapPut(EmptyMap, ip, out.bucket),
         avail   |-> refill(bucket, t).tokens,
         left    |-> out.bucket.tokens]

\* RateLimiter.checkTokenBucket: the answer, the buckets afterwards, and for the
\* record the tokens the bucket held after the refill step of the call
checkTokenBucket(ip, maxRate, buckets, t) ==
    LET bucket == IF Has(buckets, ip) THEN buckets[ip] ELSE TokenBucket(maxRate, t)
        out    == allowRequest(bucket, t)
    IN  [allowed |-> out.allowed,
         buckets |-> MapPut(buckets, ip, out.bucket),
         avail   |-> refill(bucket, t).tokens,
         left    |-> out.bucket.tokens]

\* RateLimiter.extractIP
rlExtractIP(address) == extractIP(address)

NoCall == [called |-> FALSE]
Called(class, ip, out) ==
    [called |-> TRUE, class |-> class, ip |-> ip, allowed |-> out.allowed,
     avail |-> out.avail, left |-> out.left]

\* NewRateLimiter
NewRateLimiter(enabled, maxRequests, maxDNSRequests) ==
    IF ~enabled THEN [enabled |-> FALSE, ret |-> NoCall]
    ELSE [enabled |-> TRUE, maxRequests |-> maxRequests, maxDNSRequests |-> maxDNSRequests,
          window |-> RateLimitWindow, requestBuckets |-> EmptyMap, dnsBuckets |-> EmptyMap,
          ret |-> NoCall]

\* RateLimiter.CheckRequest
CheckRequest(clientIP) ==
    /\ IF ~rl.enabled
       THEN rl' = [rl EXCEPT !.ret = NoCall]     \* no bucket is involved; the answer is true
       ELSE LET ip  == rlExtractIP(clientIP)
                out == checkTokenBucket(ip, rl.maxRequests, rl.requestBuckets, now)
            IN  rl' = [rl EXCEPT !.requestBuckets = out.buckets,
                                 !.ret = Called("request", ip, out)]
    /\ UNCHANGED <<now, aroundLimiter>>

\* RateLimiter.CheckDNSRequest
CheckDNSRequest(clientIP) ==
    /\ IF ~rl.enabled
       THEN rl' = [rl EXCEPT !.ret = NoCall]     \* no bucket is involved; the answer is true
       ELSE LET ip  == rlExtractIP(clientIP)
                out == checkTokenBucket(ip, rl.maxDNSRequests, rl.dnsBuckets, now)
            IN  rl' = [rl EXCEPT !.dnsBuckets = out.buckets,
                                 !.ret = Called("dns", ip, out)]
    /\ UNCHANGED <<now, aroundLimiter>>

\* RateLimiter.UpdateLimits: the limits are taken as given
UpdateLimits(maxRequests, maxDNS, window) ==
    /\ rl.enabled
    /\ rl' = [rl EXCEPT !.maxRequests = maxRequests, !.maxDNSRequests = maxDNS,
                        !.window = window, !.ret = NoCall]
    /\ UNCHANGED <<now, aroundLimiter>>

\* RateLimiter.Reset
Reset ==
    /\ rl.enabled
    /\ rl' = [rl EXCEPT !.requestBuckets = EmptyMap, !.dnsBuckets = EmptyMap, !.ret = NoCall]
    /\ UNCHANGED <<now, aroundLimiter>>

\* RateLimiter.cleanup: the buckets last refilled before now - 2 * window go
Stale(buckets, cutoff) == {ip \in DOMAIN buckets : buckets[ip].lastRefill < cutoff}
Keep(buckets, gone) == [ip \in DOMAIN buckets \ gone |-> buckets[ip]]
rlCleanup ==
    /\ rl.enabled
    /\ LET cutoff == now - 2 * rl.window
       IN  rl' = [rl EXCEPT
                    !.requestBuckets = Keep(@, Stale(@, cutoff)),
                    !.dnsBuckets = Keep(@, Stale(@, cutoff)),
                    !.ret = NoCall]
    /\ UNCHANGED <<now, aroundLimiter>>

\* The limits, windows and client addresses of the model
RateLimits == {1, 2}
NewLimits == {-1, 1}
Windows == {0, 1}
RateClients == {"10.1.2.3:8080", "10.1.2.3"}

InitLimiter ==
    /\ now = 0
    /\ store = EmptyMap
    /\ th = [g \in Goroutines |-> [pc |-> "idle", ret |-> [done |-> FALSE]]]
    /\ lastSet = NoSet
    /\ heap = <<>>
    /\ startTime = [g \in Goroutines |-> 0]
    /\ sweep = startCleanup
    /\ stats = NoStats
    /\ cfg = [EnableReverseDNS |-> FALSE, EnableReferrerCheck |-> FALSE, BotUserAgents |-> <<>>,
             CacheTTL |-> CacheTTL]
    /\ totalChecks = 0
    /\ uam = NoPatterns
    /\ irc = [mutex |-> FreeMutex]
    /\ rc = [enabled |-> FALSE]
    /\ rdns = [enabled |-> FALSE]
    /\ pool = [enabled |-> FALSE]
    /\ \E enabled \in BOOLEAN, maxRequests \in RateLimits, maxDNS \in RateLimits :
          rl = NewRateLimiter(enabled, maxRequests, maxDNS)

NextLimiter ==
    \/ Tick
    \/ \E ip \in RateClients : CheckRequest(ip)
    \/ \E ip \in RateClients : CheckDNSRequest(ip)
    \/ \E r \in NewLimits, d \in NewLimits, w \in Windows : UpdateLimits(r, d, w)
    \/ Reset
    \/ rlCleanup

SpecLimiter == InitLimiter /\ [][NextLimiter]_vars

\* The rate limiter with the limits it was constructed with, up to the largest int,
\* and two client addresses
BucketLimits == {1, MaxInt}
BucketClients == {"10.1.2.3:8080", "10.9.9.9"}

InitBuckets ==
    /\ now = 0
    /\ store = EmptyMap
    /\ th = [g \in Goroutines |-> [pc |-> "idle", ret |-> [done |-> FALSE]]]
    /\ lastSet = NoSet
    /\ heap = <<>>
    /\ startTime = [g \in Goroutines |-> 0]
    /\ sweep = startCleanup
    /\ stats = NoStats
    /\ cfg = [EnableReverseDNS |-> FALSE, EnableReferrerCheck |-> FALSE, BotUserAgents |-> <<>>,
             CacheTTL |-> CacheTTL]
    /\ totalChecks = 0
    /\ uam = NoPatterns
    /\ irc = [mutex |-> FreeMutex]
    /\ rc = [enabled |-> FALSE]
    /\ rdns = [enabled |-> FALSE]
    /\ pool = [enabled |-> FALSE]
    /\ \E maxRequests \in BucketLimits, maxDNS \in BucketLimits :
          rl = NewRateLimiter(TRUE, maxRequests, maxDNS)

NextBuckets ==
    \/ Tick
    \/ \E ip \in BucketClients : CheckRequest(ip)
    \/ \E ip \in BucketClients : CheckDNSRequest(ip)

SpecBuckets == InitBuckets /\ [][NextBuckets]_vars

(***************************************************************************)
(* The rate limiter with its cleanup, beside a limiter that is given the   *)
(* same calls at the same times and never evicts a bucket: rl.never holds  *)
(* the buckets of that limiter, ret.never its answer to the last call.     *)
(* Config.RateLimitWindow is any duration that is not negative; a window   *)
(* of 0 ticks is one shorter than half a tick, 100 ms for instance.        *)
(***************************************************************************)
\* CheckRequest (class "request") or CheckDNSRequest (class "dns"), answered by
\* both limiters
CheckBeside(class, clientIP) ==
    LET ip      == rlExtractIP(clientIP)
        maxRate == IF class = "request" THEN rl.maxRequests ELSE rl.maxDNSRequests
        buckets == IF class = "request" THEN rl.requestBuckets ELSE rl.dnsBuckets
        out     == checkTokenBucket(ip, maxRate, buckets, now)
        ref     == checkTokenBucket(ip, maxRate, rl.never[class], now)
        ret     == Called(class, ip, out) @@ [never |-> ref.allowed]
    IN  /\ rl.enabled
        /\ rl' = IF class = "request"
                 THEN [rl EXCEPT !.requestBuckets = out.buckets,
                                 !.never[class] = ref.buckets, !.ret = ret]
                 ELSE [rl EXCEPT !.dnsBuckets = out.buckets,
                                 !.never[class] = ref.buckets, !.ret = ret]
        /\ UNCHANGED <<now, aroundLimiter>>

InitEvict ==
    /\ now = 0
    /\ store = EmptyMap
    /\ th = [g \in Goroutines |-> [pc |-> "idle", ret |-> [done |-> FALSE]]]
    /\ lastSet = NoSet
    /\ heap = <<>>
    /\ startTime = [g \in Goroutines |-> 0]
    /\ sweep = startCleanup
    /\ stats = NoStats
    /\ cfg = [EnableReverseDNS |-> FALSE, EnableReferrerCheck |-> FALSE, BotUserAgents |-> <<>>,
             CacheTTL |-> CacheTTL]
    /\ totalChecks = 0
    /\ uam = NoPatterns
    /\ irc = [mutex |-> FreeMutex]
    /\ rc = [enabled |-> FALSE]
    /\ rdns = [enabled |-> FALSE]
    /\ pool = [enabled |-> FALSE]
    /\ \E window \in Windows :
          rl = [NewRateLimiter(TRUE, 1, 1) EXCEPT !.window = window]
                  @@ [never |-> [request |-> EmptyMap, dns |-> EmptyMap]]

NextEvict ==
    \/ Tick
    \/ \E class \in {"request", "dns"}, ip \in BucketClients : CheckBeside(class, ip)
    \/ rlCleanup

SpecEvict == InitEvict /\ [][NextEvict]_vars

(***************************************************************************)
(* ReverseDNSChecker's worker pool (plugin.go): the callers of CheckDNS,   *)
(* the job queue, the workers, the result queue, the result dispatcher and *)
(* Shutdown, step by step.  A channel is the sequence of what it buffers   *)
(* and a closed flag.  A timer (time.After) may fire at any step at which  *)
(* its select is still waiting.  The pool is observed within one cache TTL: *)
(* the clock stands still.                                                 *)
(***************************************************************************)
NumWorkers == 1
QueueSize == 1
NumCallers == 2
MaxJobs == 2

Workers == 1..NumWorkers
Callers == 1..NumCallers

\* the state the model keeps of what happens outside the reverse DNS checker
aroundPool == <<store, th, lastSet, cfg, totalChecks, uam, irc, rc, rl, heap, startTime, sweep, stats>>

\* a send on a buffered channel can proceed: the buffer has room
HasRoomAlways(queue, size) == TRUE
HasRoom(queue, size) == Len(queue) < size

\* sync.WaitGroup.Wait of Shutdown returns: every worker has left DNSWorker.start
WorkersExitedAlways(workers) == TRUE
WorkersExited(workers) == \A w \in DOMAIN workers : workers[w].pc = "exited"

\* NewReverseDNSChecker and startWorkerPool: the queues, the workers in their
\* select, the dispatcher, nothing cancelled
NewReverseDNSChecker ==
    [enabled |-> TRUE,
     jobQueue |-> <<>>, jobClosed |-> FALSE,
     resultQueue |-> <<>>, resultClosed |-> FALSE,
     ctxDone |-> FALSE,
     workers |-> [w \in Workers |-> [pc |-> "select", quit |-> FALSE]],
     dispatcher |-> "select",
     cleaner |-> "select",
     shutdown |-> "none",
     resultChan |-> EmptyMap,
     calls |-> [c \in Callers |-> [pc |-> "idle", done |-> FALSE]],
     jobs |-> 0]

\* a CheckDNS call returns res
Return(c, res, enqueued, full) ==
    [pc |-> "idle", done |-> TRUE, ip |-> pool.calls[c].ip, res |-> res,
     enqueued |-> enqueued, full |-> full]
ReturnAt(c, ip, res) ==
    [pc |-> "idle", done |-> TRUE, ip |-> ip, res |-> res, enqueued |-> FALSE, full |-> FALSE]

\* CheckDNS up to the job: the empty address, the cache lookup, the new DNSJob
CheckDNS(c, ip) ==
    LET cleanIP == extractIP(ip)
        cache   == CacheAfterLookup(rdns.cache, cleanIP, now)
        job     == [id |-> pool.jobs + 1, ip |-> cleanIP]
    IN  /\ pool.enabled
        /\ pool.calls[c].pc = "idle"
        /\ IF ip = ""
           THEN /\ pool' = [pool EXCEPT !.calls[c] = ReturnAt(c, ip, DNSNoBot("", "", 0))]
                /\ UNCHANGED rdns
           ELSE IF CachedFresh(rdns.cache, cleanIP, now)
           THEN /\ pool' = [pool EXCEPT !.calls[c] = ReturnAt(c, cleanIP, rdns.cache[cleanIP])]
                /\ UNCHANGED rdns
           ELSE /\ pool.jobs < MaxJobs
                /\ pool' = [pool EXCEPT
                              !.calls[c] = [pc |-> "enqueue", done |-> FALSE, ip |-> cleanIP,
                                            job |-> job],
                              !.resultChan = MapPut(@, job.id, <<>>),
                              !.jobs = @ + 1]
                /\ rdns' = [rdns EXCEPT !.cache = cache]
        /\ UNCHANGED <<now, aroundPool>>

\* CheckDNS, first select: the job goes into the job queue; a send on the closed
\* queue panics
Enqueue(c) ==
    LET call == pool.calls[c]
    IN  /\ call.pc = "enqueue"
        /\ IF pool.jobClosed
           THEN pool' = [pool EXCEPT !.calls[c].pc = "panicked"]
           ELSE /\ HasRoom(pool.jobQueue, QueueSize)
                /\ pool' = [pool EXCEPT !.jobQueue = Append(@, call.job),
                                        !.calls[c].pc = "wait"]
        /\ UNCHANGED <<now, rdns, aroundPool>>

EnqueueTimeoutUncached(c) ==
    LET res == DNSNoBot("", "DNS queue full", now)
    IN  /\ pool.calls[c].pc = "enqueue"
        /\ ~pool.jobClosed
        /\ ~HasRoom(pool.jobQueue, QueueSize)
        /\ pool' = [pool EXCEPT !.calls[c] = Return(c, res, FALSE, TRUE)]
        /\ UNCHANGED <<now, rdns, aroundPool>>

\* CheckDNS, first select: the queue stayed full for 100 ms
EnqueueTimeout(c) ==
    LET call == pool.calls[c]
        res  == DNSNoBot("", "DNS queue full", now)
    IN  /\ call.pc = "enqueue"
        /\ ~pool.jobClosed
        /\ ~HasRoom(pool.jobQueue, QueueSize)
        /\ rdns' = [rdns EXCEPT !.cache = MapPut(@, call.ip, res)]
        /\ pool' = [pool EXCEPT !.calls[c] = Return(c, res, FALSE, TRUE)]
        /\ UNCHANGED <<now, aroundPool>>

\* CheckDNS, second select: the result arrived on the job's ResultChan
ReceiveResult(c) ==
    LET call == pool.calls[c]
        chan == pool.resultChan[call.job.id]
        res  == processDNSResult(Head(chan), Head(chan).Timestamp)
    IN  /\ call.pc = "wait"
        /\ chan # <<>>
        /\ rdns' = [rdns EXCEPT !.cache = MapPut(@, call.ip, res)]
        /\ pool' = [pool EXCEPT !.calls[c] = Return(c, res, TRUE, FALSE),
                                !.resultChan[call.job.id] = Tail(chan)]
        /\ UNCHANGED <<now, aroundPool>>

\* CheckDNS, second select: rdns.timeout passed
WaitTimeout(c) ==
    LET call == pool.calls[c]
        res  == DNSNoBot("", "DNS timeout", now)
    IN  /\ call.pc = "wait"
        /\ rdns' = [rdns EXCEPT !.cache = MapPut(@, call.ip, res)]
        /\ pool' = [pool EXCEPT !.calls[c] = Return(c, res, TRUE, FALSE)]
        /\ UNCHANGED <<now, aroundPool>>

\* DNSWorker.start, the select: a job is received from the job queue
WorkerReceive(w) ==
    /\ pool.enabled
    /\ pool.workers[w].pc = "select"
    /\ pool.jobQueue # <<>>
    /\ pool' = [pool EXCEPT !.jobQueue = Tail(@),
                            !.workers[w] = [@ EXCEPT !.pc = "busy"] @@ [job |-> Head(pool.jobQueue)]]
    /\ UNCHANGED <<now, rdns, aroundPool>>

\* DNSWorker.start, the select: the context is cancelled, quit is signalled or the
\* job queue is closed and drained; the deferred wg.Done runs
WorkerExit(w) ==
    /\ pool.enabled
    /\ pool.workers[w].pc = "select"
    /\ \/ pool.ctxDone
       \/ pool.workers[w].quit
       \/ pool.jobClosed /\ pool.jobQueue = <<>>
    /\ pool' = [pool EXCEPT !.workers[w].pc = "exited"]
    /\ UNCHANGED <<now, rdns, aroundPool>>

\* DNSWorker.processJob and sendResult: the lookups end (the resolver answers or
\* not) and the result goes into the result queue; a send on the closed queue panics
sendResult(w, up) ==
    LET wk     == pool.workers[w]
        result == processJob(wk.job.ip, up) @@ [job |-> wk.job.id, Timestamp |-> now]
    IN  /\ pool.enabled
        /\ wk.pc = "busy"
        /\ IF pool.resultClosed
           THEN pool' = [pool EXCEPT !.workers[w].pc = "panicked"]
           ELSE /\ HasRoom(pool.resultQueue, QueueSize)
                /\ pool' = [pool EXCEPT !.resultQueue = Append(@, result),
                                        !.workers[w] = [pc |-> "select", quit |-> wk.quit]]
        /\ UNCHANGED <<now, rdns, aroundPool>>

\* sendResult without its timer
sendResultNoTimeout(w) == FALSE /\ UNCHANGED vars

\* sendResult: the result queue stayed full for a second, the result is dropped
sendResultTimeout(w) ==
    LET wk == pool.workers[w]
    IN  /\ pool.enabled
        /\ wk.pc = "busy"
        /\ ~pool.resultClosed
        /\ ~HasRoom(pool.resultQueue, QueueSize)
        /\ pool' = [pool EXCEPT !.workers[w] = [pc |-> "select", quit |-> wk.quit]]
        /\ UNCHANGED <<now, rdns, aroundPool>>

\* processResults: a result is received and handed to its job's ResultChan (a
\* buffer of one); were the buffer full, the result would be dropped after a second
processResults ==
    LET result == Head(pool.resultQueue)
        chan   == pool.resultChan[result.job]
    IN  /\ pool.enabled
        /\ pool.dispatcher = "select"
        /\ pool.resultQueue # <<>>
        /\ pool' = [pool EXCEPT
                      !.resultQueue = Tail(@),
                      !.resultChan[result.job] = IF HasRoom(chan, 1) THEN Append(chan, result) ELSE chan]
        /\ UNCHANGED <<now, rdns, aroundPool>>

\* processResults: the context is cancelled or the result queue is closed and drained
processResultsExit ==
    /\ pool.enabled
    /\ pool.dispatcher = "select"
    /\ \/ pool.ctxDone
       \/ pool.resultClosed /\ pool.resultQueue = <<>>
    /\ pool' = [pool EXCEPT !.dispatcher = "exited"]
    /\ UNCHANGED <<now, rdns, aroundPool>>

\* rdns.maxCache of NewReverseDNSChecker
maxCache == 2000

\* the maps that are left when n of the keys of cache are deleted, whichever the
\* iteration over the map meets first
DropAny(cache, n) ==
    {Keep(cache, gone) : gone \in {g \in SUBSET DOMAIN cache : Cardinality(g) = n}}

\* ReverseDNSChecker.cleanupCacheUnsafe: the entries older than cacheTTL go, and
\* half of the rest when the map still holds maxCache entries
cleanupCacheUnsafe(cache, t) ==
    LET young == Keep(cache, {k \in DOMAIN cache : t - cache[k].Timestamp > cfg.CacheTTL})
        size  == Cardinality(DOMAIN young)
    IN  IF size >= maxCache THEN DropAny(young, size \div 2) ELSE {young}

\* startCacheCleanup: the ticker fires and the cache is cleaned under rdns.mutex
startCacheCleanup ==
    /\ pool.enabled
    /\ pool.cleaner = "select"
    /\ \E cache \in cleanupCacheUnsafe(rdns.cache, now) : rdns' = [rdns EXCEPT !.cache = cache]
    /\ UNCHANGED <<now, pool, aroundPool>>

\* startCacheCleanup: the context is cancelled
startCacheCleanupExit ==
    /\ pool.enabled
    /\ pool.cleaner = "select"
    /\ pool.ctxDone
    /\ pool' = [pool EXCEPT !.cleaner = "exited"]
    /\ UNCHANGED <<now, rdns, aroundPool>>

\* Shutdown: rdns.cancel() and the quit signal to every worker
Shutdown ==
    /\ pool.enabled
    /\ pool.shutdown = "none"
    /\ pool' = [pool EXCEPT !.ctxDone = TRUE,
                            !.workers = [w \in Workers |-> [@[w] EXCEPT !.quit = TRUE]],
                            !.shutdown = "wait"]
    /\ UNCHANGED <<now, rdns, aroundPool>>

\* Shutdown: rdns.wg.Wait() returns, then the select on the job queue: a queued job
\* is received and dropped, an empty queue is closed
ShutdownCloseJobs ==
    /\ pool.enabled
    /\ pool.shutdown = "wait"
    /\ WorkersExited(pool.workers)
    /\ pool' = [pool EXCEPT
                  !.jobQueue = IF @ # <<>> THEN Tail(@) ELSE @,
                  !.jobClosed = (pool.jobQueue = <<>>),
                  !.shutdown = "jobs"]
    /\ UNCHANGED <<now, rdns, aroundPool>>

\* Shutdown: the same select on the result queue
ShutdownCloseResults ==
    /\ pool.enabled
    /\ pool.shutdown = "jobs"
    /\ pool' = [pool EXCEPT
                  !.resultQueue = IF @ # <<>> THEN Tail(@) ELSE @,
                  !.resultClosed = (pool.resultQueue = <<>>),
                  !.shutdown = "done"]
    /\ UNCHANGED <<now, rdns, aroundPool>>

\* The addresses CheckDNS is called with
DNSClients == {"", "66.249.66.1:443", "198.51.100.4"}

InitPool ==
    /\ now = 0
    /\ store = EmptyMap
    /\ th = [g \in Goroutines |-> [pc |-> "idle", ret |-> [done |-> FALSE]]]
    /\ lastSet = NoSet
    /\ heap = <<>>
    /\ startTime = [g \in Goroutines |-> 0]
    /\ sweep = startCleanup
    /\ stats = NoStats
    /\ cfg = [EnableReverseDNS |-> TRUE, EnableReferrerCheck |-> FALSE, BotUserAgents |-> <<>>,
             CacheTTL |-> CacheTTL]
    /\ totalChecks = 0
    /\ uam = NoPatterns
    /\ irc = [mutex |-> FreeMutex]
    /\ rc = [enabled |-> FALSE]
    /\ rl = [enabled |-> FALSE]
    /\ rdns = [enabled |-> TRUE, cache |-> EmptyMap]
    /\ pool = NewReverseDNSChecker

NextPool ==
    \/ \E c \in Callers, ip \in DNSClients : CheckDNS(c, ip)
    \/ \E c \in Callers : Enqueue(c)
    \/ \E c \in Callers : EnqueueTimeout(c)
    \/ \E c \in Callers : ReceiveResult(c)
    \/ \E c \in Callers : WaitTimeout(c)
    \/ \E w \in Workers : WorkerReceive(w)
    \/ \E w \in Workers : WorkerExit(w)
    \/ \E w \in Workers, up \in BOOLEAN : sendResult(w, up)
    \/ \E w \in Workers : sendResultTimeout(w)
    \/ processResults
    \/ processResultsExit
    \/ Shutdown
    \/ ShutdownCloseJobs
    \/ ShutdownCloseResults

SpecPool == InitPool /\ [][NextPool]_vars

\* The timers of CheckDNS's two selects fire: a caller does not stay in a select
\* whose send, receive or timeout can proceed
FairPool ==
    \A c \in Callers :
        /\ WF_vars(Enqueue(c) \/ EnqueueTimeout(c))
        /\ WF_vars(ReceiveResult(c) \/ WaitTimeout(c))

SpecPoolLive == SpecPool /\ FairPool

\* After rdns.cancel() the goroutines of the pool run on: a select takes a case
\* that is ready, a timer fires, Shutdown goes on when its wait is over
FairShutdown ==
    /\ \A w \in Workers :
          /\ SF_vars(WorkerExit(w))
          /\ WF_vars((\E up \in BOOLEAN : sendResult(w, up)) \/ sendResultTimeout(w))
    /\ SF_vars(processResultsExit)
    /\ SF_vars(startCacheCleanupExit)
    /\ WF_vars(ShutdownCloseJobs)
    /\ WF_vars(ShutdownCloseResults)

\* The pool with its cache cleanup task, one caller and Shutdown
NextShutdown ==
    \/ Tick
    \/ CheckDNS(1, "66.249.66.1:443")
    \/ Enqueue(1)
    \/ EnqueueTimeout(1)
    \/ ReceiveResult(1)
    \/ WaitTimeout(1)
    \/ \E w \in Workers : WorkerReceive(w)
    \/ \E w \in Workers : WorkerExit(w)
    \/ \E w \in Workers, up \in BOOLEAN : sendResult(w, up)
    \/ \E w \in Workers : sendResultTimeout(w)
    \/ processResults
    \/ processResultsExit
    \/ startCacheCleanup
    \/ startCacheCleanupExit
    \/ Shutdown
    \/ ShutdownCloseJobs
    \/ ShutdownCloseResults

SpecShutdown == InitPool /\ [][NextShutdown]_vars /\ FairShutdown

(***************************************************************************)
(* The DNS result cache over more than one cache TTL: the callers, the     *)
(* worker and the dispatcher with the clock running, no Shutdown.          *)
(***************************************************************************)
\* Two CheckDNS calls are inside getCachedResult at the same time, both under
\* rdns.mutex.RLock: caller d finds the entry of its address expired and deletes
\* it from rdns.cache while caller c reads the map for its own address.  The map
\* is written and read without exclusion.  Either the two calls go on as if one
\* had come after the other, which is CheckDNS(c, ..) and CheckDNS(d, ..) in some
\* order, or the runtime stops the process with "concurrent map read and map
\* write", which is this action: neither call returns.
getCachedResultRace(c, d, ipc, ipd) ==
    LET cleanC == extractIP(ipc)
        cleanD == extractIP(ipd)
    IN  /\ pool.enabled
        /\ c # d
        /\ pool.calls[c].pc = "idle" /\ pool.calls[d].pc = "idle"
        /\ ipc # "" /\ ipd # ""
        /\ Has(rdns.cache, cleanD) /\ ~CachedFresh(rdns.cache, cleanD, now)
        /\ pool' = [pool EXCEPT
                      !.calls[c] = [pc |-> "fatal", done |-> FALSE, ip |-> cleanC],
                      !.calls[d] = [pc |-> "fatal", done |-> FALSE, ip |-> cleanD]]
        /\ UNCHANGED <<now, rdns, aroundPool>>

CacheClients == {"66.249.66.1:443", "198.51.100.4"}

NextDNSCache ==
    \/ Tick
    \/ \E c \in Callers, ip \in CacheClients : CheckDNS(c, ip)
    \/ \E c \in Callers : Enqueue(c)
    \/ \E c \in Callers : EnqueueTimeout(c)
    \/ \E c \in Callers : ReceiveResult(c)
    \/ \E c \in Callers : WaitTimeout(c)
    \/ \E w \in Workers : WorkerReceive(w)
    \/ \E w \in Workers : sendResult(w, TRUE)
    \/ processResults
    \/ \E c, d \in Callers, ipc, ipd \in CacheClients : getCachedResultRace(c, d, ipc, ipd)

SpecDNSCache == InitPool /\ [][NextDNSCache]_vars

(***************************************************************************)
(* getCachedResult of a checker, step by step: the read lock, the look at  *)
(* the map, the delete of an expired entry, all of it under RLock.  The    *)
(* three checkers share the code; the model follows the reverse DNS        *)
(* checker's, whose CheckDNS calls come from several goroutines.           *)
(***************************************************************************)
\* the callers that hold rdns.mutex.RLock inside getCachedResult
ReadLocked == {c \in Callers : pool.calls[c].pc \in {"cached_rlock", "cached_delete"}}

\* setCachedResult takes rdns.mutex.Lock: it waits until no reader holds the mutex
CanSetCachedResult == ReadLocked = {}

\* CheckDNS enters getCachedResult and takes the read lock
getCachedResultRLock(c, ip) ==
    /\ pool.enabled
    /\ pool.calls[c].pc = "idle"
    /\ ip # ""
    /\ pool' = [pool EXCEPT !.calls[c] = [pc |-> "cached_rlock", done |-> FALSE,
                                          ip |-> extractIP(ip)]]
    /\ UNCHANGED <<now, rdns, aroundPool>>

\* CheckDNS after a lookup that found nothing: the new DNSJob
newJob(c) ==
    LET job == [id |-> pool.jobs + 1, ip |-> pool.calls[c].ip]
    IN  [pool EXCEPT !.calls[c] = [pc |-> "enqueue", done |-> FALSE, ip |-> job.ip,
                                   job |-> job],
                     !.resultChan = MapPut(@, job.id, <<>>),
                     !.jobs = @ + 1]

\* getCachedResult looks at the map: a fresh entry is returned, an expired one is
\* about to be deleted, without an entry the lookup is over
getCachedResultRead(c) ==
    LET call == pool.calls[c]
    IN  /\ call.pc = "cached_rlock"
        /\ IF CachedFresh(rdns.cache, call.ip, now)
           THEN pool' = [pool EXCEPT !.calls[c] = ReturnAt(c, call.ip, rdns.cache[call.ip])]
           ELSE IF Has(rdns.cache, call.ip)
           THEN pool' = [pool EXCEPT !.calls[c].pc = "cached_delete"]
           ELSE /\ pool.jobs < MaxJobs
                /\ pool' = newJob(c)
        /\ UNCHANGED <<now, rdns, aroundPool>>

\* getCachedResult deletes the expired entry, still under the read lock, and
\* returns nil; CheckDNS goes on to the job
getCachedResultDelete(c) ==
    LET call == pool.calls[c]
    IN  /\ call.pc = "cached_delete"
        /\ pool.jobs < MaxJobs
        /\ rdns' = [rdns EXCEPT !.cache = MapDel(@, call.ip)]
        /\ pool' = newJob(c)
        /\ UNCHANGED <<now, aroundPool>>

\* The delete happens while another caller is inside getCachedResult: the map is
\* written while it is read or written elsewhere.  Either the calls go on as
\* above or the runtime stops the process, which is this action.
getCachedResultFatal(c, d) ==
    /\ c # d
    /\ pool.calls[c].pc = "cached_delete"
    /\ d \in ReadLocked
    /\ pool' = [pool EXCEPT !.calls[c].pc = "fatal", !.calls[d].pc = "fatal"]
    /\ UNCHANGED <<now, rdns, aroundPool>>

NextLookups ==
    \/ Tick
    \/ \E c \in Callers, ip \in CacheClients : getCachedResultRLock(c, ip)
    \/ \E c \in Callers : getCachedResultRead(c)
    \/ \E c \in Callers : getCachedResultDelete(c)
    \/ \E c, d \in Callers : getCachedResultFatal(c, d)
    \/ \E c \in Callers : Enqueue(c)
    \/ \E c \in Callers : CanSetCachedResult /\ EnqueueTimeout(c)
    \/ \E c \in Callers : CanSetCachedResult /\ ReceiveResult(c)
    \/ \E c \in Callers : CanSetCachedResult /\ WaitTimeout(c)
    \/ \E w \in Workers : WorkerReceive(w)
    \/ \E w \in Workers : sendResult(w, TRUE)
    \/ processResults

SpecLookups == InitPool /\ [][NextLookups]_vars

(***************************************************************************)
(* Properties of DetectBot                                                 *)
(***************************************************************************)
\* Goroutine g is inside performDetection (past the cache, not yet returned)
Detecting(g) == th[g].pc \in {"ua", "ip", "dns", "ref", "store", "blocked"}
\* Goroutine g's last DetectBot call has returned
Returned(g) == th[g].pc = "idle" /\ th[g].ret.done
\* ... with a result computed by performDetection, not taken from the cache
Computed(g) == Returned(g) /\ ~th[g].ret.hit
\* Goroutine g waits for a mutex that is never released
Blocked(g) == th[g].pc = "blocked"

\* The request of g's current or last call, the checkers it consulted so far and
\* whether it enqueued a DNS job
RequestOf(g) == IF Returned(g) THEN th[g].ret.req ELSE th[g].req
TraceOf(g) == IF Returned(g) THEN th[g].ret.trace ELSE th[g].trace
EnqueuedBy(g) == IF Returned(g) THEN th[g].ret.enqueued ELSE th[g].enqueued

\* What the checkers' rules say about a request, whatever the caches hold
UAIsBot(req) == req.userAgent # "" /\ uamPerformCheck(uam, req.userAgent, 0).IsBot
RangeMatch(req) == MatchRanges(irc, extractIP(req.ip), 0)
InRanges(req) == req.ip # "" /\ RangeMatch(req).IsBot
VerifiedCrawler(req) == req.ip # "" /\ processJob(extractIP(req.ip), TRUE).IsValid
RefererIsSearch(req) ==
    req.referer # "" /\ MatchDomains(rc, ToLower(urlHostname(req.referer).hostname), 0).IsFromSearch

\* The order in which performDetection consults the checkers
CheckerOrder ==
    <<"user_agent", "ip_range">>
        \o (IF cfg.EnableReverseDNS THEN <<"reverse_dns">> ELSE <<>>)
        \o (IF cfg.EnableReferrerCheck THEN <<"referrer">> ELSE <<>>)

\* C1: on a top-level cache miss DetectBot consults the User-Agent matcher, the IP
\* range checker, the reverse DNS checker (only when enabled) and the referrer
\* checker in this order; no checker is consulted after one that reported a bot;
\* the checker that reported a bot determines the result (Bot, its method tag, its
\* confidence); a DNS job is enqueued only by the reverse DNS step, hence never
\* when the User-Agent or the IP range already reported a bot.
C1_CheckOrder ==
    \A g \in Goroutines :
        (Detecting(g) \/ Computed(g)) =>
            LET tr == TraceOf(g)
                n  == Len(tr)
            IN  /\ n <= Len(CheckerOrder)
                /\ \A i \in 1..n : tr[i].checker = CheckerOrder[i]
                /\ \A i \in 1..(n - 1) : ~tr[i].IsBot
                /\ EnqueuedBy(g) =>
                      \E i \in 1..n : tr[i].checker = "reverse_dns"
                /\ Computed(g) =>
                      LET res == th[g].ret.res
                      IN  /\ res.IsBot <=> (n > 0 /\ tr[n].IsBot)
                          /\ res.IsBot =>
                                /\ res.UserType = "bot"
                                /\ res.DetectionMethod = tr[n].checker
                                /\ res.Confidence = tr[n].Confidence

\* A detection has returned Bot after the User-Agent matcher, the first checker,
\* reported a bot, with a request whose address is in the bot ranges as well.
C1_Witness ==
    \E g \in Goroutines :
        /\ Computed(g)
        /\ th[g].ret.res.IsBot
        /\ th[g].ret.res.DetectionMethod = "user_agent"
        /\ Len(th[g].ret.trace) = 1
        /\ InRanges(th[g].ret.req)

\* C2: each request's classification is independent of earlier requests: a
\* returned non-bot verdict is the verdict of the request's own Referer (search
\* user or direct user), whatever was asked before with the same address and
\* User-Agent.
C2_OwnVerdict ==
    \A g \in Goroutines :
        (Returned(g) /\ ~th[g].ret.res.IsBot) =>
            th[g].ret.res.UserType =
                IF cfg.EnableReferrerCheck
                THEN (IF RefererIsSearch(th[g].ret.req) THEN "from_search" ELSE "direct")
                ELSE (IF th[g].ret.req.referer = "" THEN "direct" ELSE "from_search")

\* C3: with reverse DNS enabled, a request that no earlier checker calls a bot and
\* whose address is a verified crawler (PTR and forward lookup agree, the hostname
\* matches a bot domain) leaves performDetection as Bot, reverse_dns, 0.95.
C3_ReverseDNSVerdict ==
    \A g \in Goroutines :
        LET req == RequestOf(g)
        IN  (/\ Detecting(g) \/ Computed(g)
             /\ cfg.EnableReverseDNS
             /\ ~UAIsBot(req) /\ ~InRanges(req) /\ VerifiedCrawler(req)) =>
                /\ ~Blocked(g)
                /\ Computed(g) =>
                      /\ th[g].ret.res.UserType = "bot"
                      /\ th[g].ret.res.DetectionMethod = "reverse_dns"
                      /\ th[g].ret.res.Confidence = 95

\* C4: IPRangeChecker.IsBot answers for every address: a configured single address
\* with confidence 1.0, else the longest matching network with 0.9, else no bot.
\* No caller is left waiting inside the IP range check.
C4_IsBotAnswers ==
    \A g \in Goroutines :
        Blocked(g) => th[g].trace[Len(th[g].trace)].checker # "ip_range"

\* C5: a request from an address inside a configured network, with a User-Agent
\* that is no bot, is classified Bot, ip_range, 0.9.
C5_RangeVerdict ==
    \A g \in Goroutines :
        LET req == RequestOf(g)
        IN  (/\ Detecting(g) \/ Computed(g)
             /\ ~UAIsBot(req) /\ InRanges(req) /\ RangeMatch(req).Confidence = 90) =>
                /\ ~Blocked(g)
                /\ Computed(g) =>
                      /\ th[g].ret.res.UserType = "bot"
                      /\ th[g].ret.res.DetectionMethod = "ip_range"
                      /\ th[g].ret.res.Confidence = 90

\* C6: with "googlebot" configured as an exact or as a substring pattern, a
\* request with the Googlebot User-Agent is classified Bot, user_agent, 1.0.
C6_GooglebotVerdict ==
    \A g \in Goroutines :
        (/\ Computed(g)
         /\ th[g].ret.req.userAgent = Googlebot
         /\ cfg.BotUserAgents \in {<<"googlebot">>, <<"*googlebot*">>}) =>
            /\ th[g].ret.res.UserType = "bot"
            /\ th[g].ret.res.DetectionMethod = "user_agent"
            /\ th[g].ret.res.Confidence = 100

\* C7: a request with an empty User-Agent, from an address outside every range,
\* with a Google search Referer is classified search user by the referrer check,
\* search engine Google.
C7_SearchVerdict ==
    \A g \in Goroutines :
        LET req == RequestOf(g)
        IN  (/\ Detecting(g) \/ Computed(g)
             /\ cfg.EnableReferrerCheck /\ ~cfg.EnableReverseDNS
             /\ req.userAgent = "" /\ req.ip # "" /\ ~InRanges(req)
             /\ req.referer = "https://www.google.com/search?q=test") =>
                /\ ~Blocked(g)
                /\ Computed(g) =>
                      /\ th[g].ret.res.UserType = "from_search"
                      /\ th[g].ret.res.DetectionMethod = "referrer"
                      /\ th[g].ret.res.SearchEngine = "Google"

\* C8: a request with an empty User-Agent, from an address outside every range,
\* with no Referer is classified direct user by the fallback.
C8_DirectVerdict ==
    \A g \in Goroutines :
        LET req == RequestOf(g)
        IN  (/\ Detecting(g) \/ Computed(g)
             /\ ~cfg.EnableReverseDNS
             /\ req.userAgent = "" /\ req.ip # "" /\ ~InRanges(req)
             /\ req.referer = "") =>
                /\ ~Blocked(g)
                /\ Computed(g) =>
                      /\ th[g].ret.res.UserType = "direct"
                      /\ th[g].ret.res.DetectionMethod = "fallback"

(***************************************************************************)
(* Properties of the Cache                                                 *)
(***************************************************************************)
\* C9: a Get that follows a completed Set or SetWithTTL of the same key returns the
\* stored value when the entry never expires (TTL <= 0) or the Get returns before
\* the TTL has elapsed, and returns nil when it starts after the TTL has elapsed.
C9_GetAfterSet ==
    [][\A g \in Goroutines :
          (th[g].pc = "get_read" /\ th'[g].pc = "idle" /\ th[g].after.ok) =>
              LET a == th[g].after
                  r == th'[g].ret
              IN  /\ (a.ttl <= 0 \/ now - a.at < a.ttl) => (r.found /\ r.value = a.value)
                  /\ (a.ttl > 0 /\ th[g].startAt - a.at > a.ttl) => ~r.found]_vars

\* A Get that followed a Set has returned the stored value, at a time when another
\* clock tick would expire nothing any more.
C9_Witness ==
    \E g \in Goroutines :
        /\ th[g].pc = "idle" /\ th[g].ret.done
        /\ th[g].ret.after /\ th[g].ret.found
        /\ now = MaxTime

\* C10: after every completed operation the cache holds at most MaxCacheSize
\* entries.
C10_Bounded == Cardinality(DOMAIN store) <= MaxCacheSize

(***************************************************************************)
(* Properties of the RateLimiter                                           *)
(***************************************************************************)
AllBuckets ==
    IF rl.enabled
    THEN {rl.requestBuckets[ip] : ip \in DOMAIN rl.requestBuckets}
            \cup {rl.dnsBuckets[ip] : ip \in DOMAIN rl.dnsBuckets}
    ELSE {}

\* C11: every token bucket holds between 0 and capacity tokens; a CheckRequest or
\* CheckDNSRequest call answers true exactly when the bucket held a token after the
\* call's refill step, and takes one token when it answers true, none otherwise.
C11_TokenBounds ==
    /\ \A tb \in AllBuckets : 0 <= tb.tokens /\ tb.tokens <= tb.capacity
    /\ rl.ret.called =>
          /\ rl.ret.allowed <=> rl.ret.avail >= 1
          /\ rl.ret.left = rl.ret.avail - (IF rl.ret.allowed THEN 1 ELSE 0)

(***************************************************************************)
(* Properties of ReverseDNSChecker's worker pool                           *)
(***************************************************************************)
\* Caller c is inside CheckDNS, in its first or its second select
InCheckDNS(c) == pool.calls[c].pc \in {"enqueue", "wait"}
\* Caller c's last CheckDNS call has returned
DNSReturned(c) == pool.calls[c].pc = "idle" /\ pool.calls[c].done
\* The workers that execute a job
BusyWorkers == {w \in Workers : pool.workers[w].pc = "busy"}

\* C12: a CheckDNS call that finds the job queue full does not stay in its enqueue
\* select; when it leaves the select with the queue still full, it returns not-bot
\* with "DNS queue full", the queue is unchanged and the result is in the DNS cache
\* under the address.
C12_QueueFull ==
    /\ [][\A c \in Callers :
            (/\ pool.calls[c].pc = "enqueue"
             /\ Len(pool.jobQueue) >= QueueSize
             /\ pool'.calls[c].pc # "enqueue") =>
                /\ pool'.calls[c].pc = "idle" /\ pool'.calls[c].done
                /\ ~pool'.calls[c].res.IsBot
                /\ pool'.calls[c].res.Error = "DNS queue full"
                /\ pool'.jobQueue = pool.jobQueue
                /\ Has(rdns'.cache, pool.calls[c].ip)
                /\ rdns'.cache[pool.calls[c].ip] = pool'.calls[c].res]_vars
    /\ \A c \in Callers :
          (pool.calls[c].pc = "enqueue") ~> (pool.calls[c].pc # "enqueue")

\* A call has returned the queue-full answer while the job of another call was
\* still in the queue.
C12_Witness ==
    \E c \in Callers :
        /\ DNSReturned(c) /\ pool.calls[c].full
        /\ pool.jobQueue # <<>>
        /\ rdns.cache[pool.calls[c].ip].Error = "DNS queue full"

\* C13: every CheckDNS call that has started its job eventually returns, whatever
\* the workers, the resolver and Shutdown do.
C13_EventuallyReturns ==
    \A c \in Callers : InCheckDNS(c) ~> DNSReturned(c)

\* C14: the job queue never holds more than QueueSize jobs (nor the result queue
\* more results), and never more than NumWorkers workers execute a lookup.
C14_PoolBounded ==
    /\ Len(pool.jobQueue) <= QueueSize
    /\ Len(pool.resultQueue) <= QueueSize
    /\ Cardinality(BusyWorkers) <= NumWorkers

\* Two calls wait for their results at once, the queue is full and every worker
\* is busy.
C14_Witness ==
    /\ Len(pool.jobQueue) = QueueSize
    /\ BusyWorkers = Workers
    /\ \A c \in Callers : pool.calls[c].pc = "wait"

\* C15: Shutdown cancels first, then waits for the workers, then closes: while a
\* queue is closed, or Shutdown is past its wait, the context is cancelled and
\* every worker has exited; no worker ever sends on a closed result queue.
C15_CloseAfterExit ==
    /\ (pool.jobClosed \/ pool.resultClosed \/ pool.shutdown \in {"jobs", "done"}) =>
          /\ pool.ctxDone
          /\ \A w \in Workers : pool.workers[w].pc = "exited"
    /\ \A w \in Workers : pool.workers[w].pc # "panicked"

\* Shutdown has closed both queues after a worker had resolved a job whose result
\* its caller received.
C15_Witness ==
    /\ pool.jobClosed /\ pool.resultClosed
    /\ \E c \in Callers :
          DNSReturned(c) /\ pool.calls[c].enqueued /\ pool.calls[c].res.IsBot

\* C16: no CheckDNS call sends its job on the closed job queue.
C16_NoPanic ==
    \A c \in Callers : pool.calls[c].pc # "panicked"

(***************************************************************************)
(* Properties of the rule set changes                                      *)
(***************************************************************************)
\* C17: a verdict that DetectBot returns from its result cache agrees with the rule
\* set in force when it is returned: it is Bot exactly when the User-Agent matcher's
\* current patterns match the request's User-Agent (the requests carry no address,
\* so no other checker reports a bot).
C17_NoStaleVerdict ==
    [][\A g \in Goroutines :
          (th[g].pc = "db_get" /\ th'[g].pc = "idle" /\ th'[g].ret.hit) =>
              ((th'[g].ret.res.UserType = "bot")
                  <=> uamPerformCheck(uam, th[g].req.userAgent, now).IsBot)]_vars

(***************************************************************************)
(* Properties of the checkers' locking                                     *)
(***************************************************************************)
\* C18: no goroutine waits for the write lock of a checker's mutex while it holds
\* that mutex's read lock itself, so every IsBot and CheckReferrer call completes.
C18_NoSelfDeadlock ==
    \A g \in Goroutines :
        Blocked(g) => (g \notin irc.mutex.readers /\ g \notin rc.mutex.readers)

(***************************************************************************)
(* Properties of DetectBot's result cache                                  *)
(***************************************************************************)
\* The cache key of a request, as the specification words it: address and User-Agent
KeyOf(req) == req.ip \o "|" \o req.userAgent

\* A DetectBot call that returns from performDetection leaves its result in the
\* cache under the request's key, with the configured time to live
StoredOnMiss ==
    \A g \in Goroutines :
        (th[g].pc = "store" /\ th'[g].pc = "idle") =>
            LET k == KeyOf(th'[g].ret.req)
            IN  /\ Has(store', k)
                /\ store'[k].Value = th'[g].ret.res
                /\ store'[k].TTL = cfg.CacheTTL
                /\ store'[k].CreatedAt = now

\* A DetectBot call whose Get has read the entry that is in the cache under the
\* request's key, stamped less than CacheTTL ago, returns that entry's result
\* (verdict, method, confidence) and consults no checker
ServedFromCache ==
    \A g \in Goroutines :
        LET k == KeyOf(th[g].req)
        IN  (/\ th[g].pc = "db_get" /\ th'[g].pc # "db_get"
             /\ th[g].live /\ Has(store, k)
             /\ now - store[k].Value.Timestamp < cfg.CacheTTL) =>
                /\ th'[g].pc = "idle" /\ th'[g].ret.done /\ th'[g].ret.hit
                /\ th'[g].ret.res = store[k].Value
                /\ th'[g].ret.trace = <<>>

\* A stored result stays in the cache for as long as it is younger than CacheTTL
KeptUntilTTL ==
    \A k \in DOMAIN store :
        now' - store[k].Value.Timestamp < cfg.CacheTTL => Has(store', k)

\* C19 (as amended): after DetectBot returns on a cache miss its result is stored
\* under the (ip, userAgent) key with the configured TTL, and a later call with the
\* same ip and userAgent that still finds this entry, less than CacheTTL after it was
\* stamped, returns the stored verdict, method and confidence without any checker.
C19_StoredAndServed == [][StoredOnMiss /\ ServedFromCache]_vars

\* a call answered from the cache with the result an earlier call has stored
C19_Witness ==
    \E g \in Goroutines :
        /\ Returned(g) /\ th[g].ret.hit /\ totalChecks = 2
        /\ Has(store, KeyOf(th[g].ret.req))
        /\ store[KeyOf(th[g].ret.req)].Value = th[g].ret.res

\* C19 (as stated): the result is stored with the configured TTL and every later call
\* with the same ip and userAgent before that TTL elapses is answered with it, so the
\* result is found in the cache at every moment until its TTL has elapsed.
C19_ServedUntilTTL == [][StoredOnMiss /\ ServedFromCache /\ KeptUntilTTL]_vars

(***************************************************************************)
(* Properties of determineUserType                                         *)
(***************************************************************************)
\* The Referer's host is one of the allowed search engine domains (AllowedReferrers)
AllowedHost(referer) ==
    LET host == ToLower(urlHostname(referer).hostname)
    IN  host = "google.com" \/ HasSuffix(host, ".google.com")

\* C20: a request that no checker calls a bot is classified by determineUserType:
\* with the referrer check enabled, search user exactly when the Referer's host is
\* an allowed domain and direct user for no Referer and for every other Referer;
\* with the check disabled, direct user by fallback with confidence 0.8 for no
\* Referer and search user by fallback with 0.6 for every other.  No such request
\* is left without a classification.
C20_HumanClass ==
    \A g \in Goroutines :
        LET req == RequestOf(g)
        IN  /\ Blocked(g) => th[g].trace[Len(th[g].trace)].checker # "referrer"
            /\ (Computed(g) /\ ~th[g].ret.res.IsBot) =>
                  LET res == th[g].ret.res
                  IN  IF cfg.EnableReferrerCheck
                      THEN /\ res.DetectionMethod = "referrer"
                           /\ res.UserType =
                                 (IF req.referer # "" /\ AllowedHost(req.referer)
                                  THEN "from_search" ELSE "direct")
                      ELSE /\ res.DetectionMethod = "fallback"
                           /\ res.UserType = (IF req.referer = "" THEN "direct"
                                              ELSE "from_search")
                           /\ res.Confidence = (IF req.referer = "" THEN 80 ELSE 60)

(***************************************************************************)
(* Properties of the result objects                                        *)
(***************************************************************************)
\* A DetectBot call of g is answered from the cache in this step
AnsweredFromCache(g) == th[g].pc = "db_get" /\ th'[g].pc = "idle" /\ th'[g].ret.hit

\* C21: a result is immutable once produced: no step changes a field of an object
\* that was returned to a caller (every object of the heap was), and a call answered
\* from the cache returns a new object, a copy of the cached one that differs from
\* it in ProcessingTime at most.
C21_Immutable ==
    [][/\ \A p \in DOMAIN heap : heap'[p] = heap[p]
       /\ \A g \in Goroutines :
             AnsweredFromCache(g) =>
                /\ th'[g].ret.res \notin DOMAIN heap
                /\ [heap'[th'[g].ret.res] EXCEPT !.ProcessingTime = 0]
                      = [heap[th[g].entry.Value] EXCEPT !.ProcessingTime = 0]]_vars

(***************************************************************************)
(* Properties of the checkers on input that does not parse                 *)
(***************************************************************************)
\* C22: IPRangeChecker.IsBot on a non-empty address that is no IP address returns
\* not-bot and adds exactly one to invalidIPs; the caller is not left waiting.
C22_InvalidAddress ==
    [][\A g \in Goroutines :
          (/\ th[g].pc = "ip" /\ th'[g].pc # "ip"
           /\ th[g].req.ip # "" /\ ~ParseIP(extractIP(th[g].req.ip)).ok) =>
              /\ th'[g].pc # "blocked"
              /\ ~th'[g].trace[Len(th'[g].trace)].IsBot
              /\ irc'.invalidIPs = irc.invalidIPs + 1]_vars

\* The Referer does not parse as an URL, or it parses and has no host
Malformed(referer) ==
    referer # "" /\ (urlHostname(referer).err \/ urlHostname(referer).hostname = "")

\* C23: ReferrerChecker.CheckReferrer on a non-empty referrer that fails URL parsing
\* or has no host returns (the caller is not left waiting) a result that is not from
\* search and has ReferrerType malformed.
C23_MalformedReferrer ==
    [][\A g \in Goroutines :
          (/\ th[g].pc = "ref" /\ th'[g].pc # "ref"
           /\ cfg.EnableReferrerCheck /\ Malformed(th[g].req.referer)) =>
              /\ th'[g].pc # "blocked"
              /\ Has(rc'.cache, th[g].req.referer)
              /\ ~rc'.cache[th[g].req.referer].IsFromSearch
              /\ rc'.cache[th[g].req.referer].ReferrerType = "malformed"
              /\ th'[g].res.UserType = "direct"]_vars

(***************************************************************************)
(* Properties of the UserAgentMatcher                                      *)
(***************************************************************************)
\* An IsBot call of g returns in this step
MatcherAnswers(g) == th[g].pc = "uam_isbot" /\ th'[g].pc = "idle"

\* C24: once AddPattern or RemovePattern has returned, IsBot returns for every
\* User-Agent the verdict of the current pattern set, never one cached under the
\* previous set.
C24_CurrentPatterns ==
    [][\A g \in Goroutines :
          MatcherAnswers(g) =>
              (th'[g].ret.res.IsBot
                  <=> (th[g].userAgent # ""
                       /\ uamPerformCheck(uam, th[g].userAgent, now).IsBot))]_vars

\* C27: IsBot reports the first tier that matches a non-empty User-Agent: the exact
\* set (pattern: the lowered User-Agent, confidence 1.0), else the first matching
\* substring (0.9), else the first matching regular expression (0.8); it reports a
\* bot only when a tier matches, and never for the empty User-Agent.
C27_TierOrder ==
    [][\A g \in Goroutines :
          MatcherAnswers(g) =>
              LET ua    == th[g].userAgent
                  res   == th'[g].ret.res
                  exact == ToLower(ua) \in uam.exactMatches
                  subs  == {i \in 1..Len(uam.containsMatches) :
                               Contains(ToLower(ua), uam.containsMatches[i])}
                  regs  == {i \in 1..Len(uam.compiledRegexps) :
                               MatchString(uam.compiledRegexps[i], ua)}
                  First(hits) == CHOOSE i \in hits : \A j \in hits : i <= j
              IN  IF ua = "" THEN ~res.IsBot
                  ELSE IF exact
                  THEN res.IsBot /\ res.Confidence = 100 /\ res.MatchedPattern = ToLower(ua)
                  ELSE IF subs # {}
                  THEN /\ res.IsBot /\ res.Confidence = 90
                       /\ res.MatchedPattern = uam.containsMatches[First(subs)]
                  ELSE IF regs # {}
                  THEN /\ res.IsBot /\ res.Confidence = 80
                       /\ res.MatchedPattern = uam.compiledRegexps[First(regs)].src
                  ELSE ~res.IsBot]_vars

(***************************************************************************)
(* Properties of the IPRangeChecker's rule set                             *)
(***************************************************************************)
\* An AddRange or RemoveRange call of g returns nil in this step
RangesChanged(g) ==
    /\ th[g].pc \in {"idle", "add_sort"} /\ th'[g] # th[g]
    /\ th'[g].pc = "idle" /\ th'[g].ret.done
    /\ th'[g].ret.call \in {"AddRange", "RemoveRange"} /\ th'[g].ret.ok

\* C25: when AddRange or RemoveRange returns nil the checker's result cache is
\* empty, and the IsBot call that follows is evaluated against the ranges as they
\* are now: it returns their verdict for its address.
C25_FreshAfterChange ==
    [][\A g \in Goroutines :
          /\ RangesChanged(g) => irc'.cache = EmptyMap
          /\ (th[g].pc = "irc_isbot" /\ th'[g].pc # "irc_isbot") =>
                LET now_says == MatchRanges(irc, extractIP(th[g].arg), now)
                IN  /\ th'[g].pc = "idle"
                    /\ th'[g].ret.res.IsBot = (th[g].arg # "" /\ now_says.IsBot)
                    /\ th'[g].ret.res.IsBot =>
                          /\ th'[g].ret.res.MatchedRange = now_says.MatchedRange
                          /\ th'[g].ret.res.Confidence = now_says.Confidence]_vars

\* the list is ordered by non-increasing prefix length
Sorted(nets) == \A i \in 1..(Len(nets) - 1) : nets[i].ones >= nets[i + 1].ones

\* C26: after construction and after every AddRange and RemoveRange, whenever no
\* writer holds irc.mutex, that is in every state a reader can see, the IPv4 and
\* the IPv6 network list are each ordered by non-increasing prefix length.
C26_SortedNetworks ==
    irc.mutex.writer = 0 => (Sorted(irc.ipv4Networks) /\ Sorted(irc.ipv6Networks))

\* AddRange has returned after sorting a longer prefix in front of those that
\* were there, in the IPv4 list and in the IPv6 list
C26_Witness ==
    /\ irc.mutex.writer = 0
    /\ \E g \in Goroutines :
          /\ th[g].pc = "idle" /\ th[g].ret.done /\ th[g].ret.call = "AddRange"
          /\ th[g].ret.ok
    /\ Len(irc.ipv4Networks) >= 2 /\ irc.ipv4Networks[1].ones = 24
    /\ Len(irc.ipv6Networks) >= 2 /\ irc.ipv6Networks[1].ones = 48
    /\ irc.ipv6Networks[2].ones = 32

(***************************************************************************)
(* Properties of the token buckets                                         *)
(***************************************************************************)
\* The buckets of a limit class
ClassBuckets(r, class) == IF class = "request" THEN r.requestBuckets ELSE r.dnsBuckets
ClassLimit(r, class) == IF class = "request" THEN r.maxRequests ELSE r.maxDNSRequests
\* This step is a CheckRequest or CheckDNSRequest call that went to a bucket
AllowStep == rl.enabled /\ rl' # rl /\ rl'.ret.called
Minimum(a, b) == IF a < b THEN a ELSE b

\* C28: the first call for a (class, address) creates the bucket full; a call less
\* than one whole second after the last refill leaves tokens and the last-refill
\* time to the refill step as they are, so that a call succeeds exactly while
\* tokens are left of the capacity; a call k >= 1 whole seconds after the last
\* refill finds min(capacity, tokens + k * refillRate) tokens and sets the
\* last-refill time, and then takes its token.
C28_Refill ==
    [][AllowStep =>
        LET class   == rl'.ret.class
            ip      == rl'.ret.ip
            old     == ClassBuckets(rl, class)
            new     == ClassBuckets(rl', class)[ip]
            elapsed == now - old[ip].lastRefill
            k       == elapsed \div Second
        IN  /\ ~Has(old, ip) =>
                  /\ rl'.ret.avail = ClassLimit(rl, class)
                  /\ new.capacity = ClassLimit(rl, class)
                  /\ new.lastRefill = now
            /\ (Has(old, ip) /\ elapsed < Second) =>
                  /\ rl'.ret.avail = old[ip].tokens
                  /\ new.lastRefill = old[ip].lastRefill
            /\ (Has(old, ip) /\ elapsed >= Second) =>
                  /\ rl'.ret.avail =
                        Minimum(old[ip].capacity, old[ip].tokens + k * old[ip].refillRate)
                  /\ new.lastRefill = now
            /\ rl'.ret.allowed <=> rl'.ret.avail >= 1
            /\ new.tokens = rl'.ret.avail - (IF rl'.ret.allowed THEN 1 ELSE 0)]_vars

\* C29: a CheckRequest or CheckDNSRequest call for an address leaves the buckets
\* of the other limit class and the buckets of every other address of its own
\* class as they are.
C29_OnlyItsBucket ==
    [][AllowStep =>
        LET class == rl'.ret.class
            other == IF class = "request" THEN "dns" ELSE "request"
            old   == ClassBuckets(rl, class)
            new   == ClassBuckets(rl', class)
        IN  /\ ClassBuckets(rl', other) = ClassBuckets(rl, other)
            /\ DOMAIN new = DOMAIN old \cup {rl'.ret.ip}
            /\ \A ip \in DOMAIN old \ {rl'.ret.ip} : new[ip] = old[ip]]_vars

\* A call has just gone to a bucket while the other class and another address of
\* its own class hold buckets that are no longer full
C29_Witness ==
    /\ rl.enabled /\ rl.ret.called /\ rl.ret.class = "dns" /\ rl.ret.allowed
    /\ \E ip \in DOMAIN rl.dnsBuckets \ {rl.ret.ip} :
          rl.dnsBuckets[ip].tokens < rl.dnsBuckets[ip].capacity
    /\ \E ip \in DOMAIN rl.requestBuckets :
          rl.requestBuckets[ip].tokens < rl.requestBuckets[ip].capacity

(***************************************************************************)
(* Properties of the DNS result cache                                      *)
(***************************************************************************)
\* Caller c calls CheckDNS in this step
DNSCalled(c) ==
    /\ pool.calls[c].pc = "idle" /\ pool'.calls[c] # pool.calls[c]
    /\ pool'.calls[c].ip # ""

\* C30: a CheckDNS call for a non-empty address leaves its outcome, whichever it
\* is, in the DNS cache under the address when it returns; and a CheckDNS call for
\* an address whose cached outcome is younger than the cache TTL returns that
\* outcome and creates and enqueues no job.
C30_CachedOutcome ==
    [][\A c \in Callers :
          /\ (/\ pool.calls[c].pc \in {"enqueue", "wait"}
              /\ pool'.calls[c].pc = "idle" /\ pool'.calls[c].done) =>
                  /\ Has(rdns'.cache, pool.calls[c].ip)
                  /\ rdns'.cache[pool.calls[c].ip] = pool'.calls[c].res
          /\ (DNSCalled(c) /\ CachedFresh(rdns.cache, pool'.calls[c].ip, now)) =>
                  /\ pool'.calls[c].pc = "idle" /\ pool'.calls[c].done
                  /\ pool'.calls[c].res = rdns.cache[pool'.calls[c].ip]
                  /\ pool'.jobs = pool.jobs
                  /\ pool'.jobQueue = pool.jobQueue
                  /\ rdns' = rdns]_vars

(***************************************************************************)
(* Properties of ReverseDNSChecker.Shutdown                                *)
(***************************************************************************)
\* Shutdown has returned and every goroutine of the pool has stopped
PoolStopped ==
    /\ pool.shutdown = "done"
    /\ \A w \in Workers : pool.workers[w].pc = "exited"
    /\ pool.dispatcher = "exited"
    /\ pool.cleaner = "exited"

\* C31: once Shutdown has cancelled the context, every worker exits, whether it
\* was idle, in a lookup or delivering its result, the wait for the workers ends
\* and Shutdown returns; the result dispatcher and the cache cleanup task stop too.
C31_ShutdownReturns == (pool.shutdown = "wait") ~> PoolStopped

\* Shutdown has returned after the worker, cancelled with a job in its hands, had
\* left its result in the result queue, which Shutdown then found not empty
C31_Witness ==
    /\ PoolStopped
    /\ pool.jobClosed /\ ~pool.resultClosed
    /\ pool.jobs = MaxJobs

(***************************************************************************)
(* Properties of Cache.StopCleanup                                         *)
(***************************************************************************)
\* C32: StopCleanup can be called in every state and returns at once, however
\* often it was called before; once it has been called the sweep task terminates;
\* the task that has taken the stop signal stays terminated and sweeps no more.
C32_StopCleanup ==
    /\ [](\A g \in Goroutines : ENABLED StopCleanup(g))
    /\ [](sweep.stopCleanup <= 1)
    /\ (\E g \in Goroutines : th[g].ret.done) ~> (sweep.pc = "exited")
    /\ [][sweep.pc = "exited" => (sweep'.pc = "exited" /\ ~cleanup)]_vars

\* StopCleanup was called again after the task had stopped, and the cache holds
\* an entry that has expired since
C32_Witness ==
    /\ sweep.pc = "exited" /\ ~sweep.isRunning /\ sweep.stopCleanup = 1
    /\ \E k \in DOMAIN store : isExpired(store[k], now)

(***************************************************************************)
(* Properties of Cache.Get next to a concurrent Set                        *)
(***************************************************************************)
\* C33: when a Get returns, an entry that a Set has stored under the key since the
\* Get read the store is still there; Get removes nothing but the expired entry
\* it has read itself.
C33_GetKeepsNewEntry ==
    [][\A g \in Goroutines :
          (/\ th[g].pc = "get_read" /\ th'[g].pc = "idle"
           /\ ~th[g].live /\ Has(store, th[g].key)) =>
              /\ Has(store', th[g].key)
              /\ store'[th[g].key] = store[th[g].key]]_vars

(***************************************************************************)
(* Properties of the checkers' result caches                               *)
(***************************************************************************)
\* C34: a lookup that deletes an expired entry from a checker's result cache is
\* alone with the map: no other goroutine holds the checker's lock, for reading
\* or for a delete of its own, while the entry is deleted.
C34_ExclusiveDelete ==
    [][\A c \in Callers :
          (pool.calls[c].pc = "cached_delete" /\ pool'.calls[c].pc # "cached_delete")
              => ReadLocked = {c}]_vars

(***************************************************************************)
(* Properties of AddPattern next to RemovePattern                          *)
(***************************************************************************)
\* the matcher applies the pattern: it is on the list and in its tier
InEffect(m, pattern) ==
    /\ \E i \in 1..Len(m.botPatterns) : m.botPatterns[i] = pattern
    /\ IF isExactMatch(pattern) THEN ToLower(pattern) \in m.exactMatches
       ELSE IF isSimpleContains(pattern)
       THEN \E i \in 1..Len(m.containsMatches) :
               m.containsMatches[i] = ToLower(Trim(pattern, "*"))
       ELSE \E i \in 1..Len(m.compiledRegexps) :
               m.compiledRegexps[i] = Compile("(?i)" \o pattern)

\* a RemovePattern call for the pattern is under way before or after the step
Removing(pattern) ==
    \E g \in Goroutines :
        \/ th[g].pc = "remove_init" /\ th[g].pattern = pattern
        \/ th'[g].pc = "remove_init" /\ th'[g].pattern = pattern

\* C35: a pattern that is in effect stays in effect over every step that is not
\* part of a RemovePattern call for that pattern, whatever RemovePattern calls for
\* other patterns do meanwhile.
C35_PatternStays ==
    [][\A pattern \in RulePatterns :
          (InEffect(uam, pattern) /\ ~Removing(pattern)) => InEffect(uam', pattern)]_vars

(***************************************************************************)
(* Properties of RemoveRange                                               *)
(***************************************************************************)
\* RemoveRange returns nil to goroutine g in this step
RangeRemoved(g) ==
    /\ th[g].pc = "idle" /\ th'[g].pc = "idle"
    /\ th'[g] # th[g] \/ irc' # irc
    /\ th'[g].ret.done /\ th'[g].ret.call = "RemoveRange" /\ th'[g].ret.ok

\* the addresses that IsBot is asked about afterwards
RemovedClients == {"10.1.2.3", "10.9.9.9", "192.0.2.8", "198.51.100.4"}

\* C36: when RemoveRange(r) returns nil, the ranges as they are then, which is what
\* the IsBot calls that follow are evaluated against, give r's network or r's
\* address as matchedRange for no address, and call an address a bot only if a
\* network other than r's or a single address of the checker contains it.
C36_RangeGone ==
    [][\A g \in Goroutines :
          RangeRemoved(g) =>
             LET r    == th'[g].ret.arg
                 net  == ParseCIDR(r)
                 Mine(n) == net.ok /\ NetText(n) = NetString(net)
             IN  \A ip \in RemovedClients :
                    LET says == MatchRanges(irc', ip, now)
                    IN  /\ says.IsBot => says.MatchedRange \notin {r, NetString(net)}
                        /\ says.IsBot =>
                              \/ ip \in irc'.singleIPv4
                              \/ \E i \in 1..Len(irc'.ipv4Networks) :
                                    /\ ~Mine(irc'.ipv4Networks[i])
                                    /\ NetContains(irc'.ipv4Networks[i],
                                                   ParseIP(ip).b)]_vars

(***************************************************************************)
(* Properties of Set on a key that is in the store                         *)
(***************************************************************************)
\* SetWithTTL has run in this step
SetDone == lastSet'.ok /\ (lastSet' # lastSet \/ store' # store)

\* C37: a Set or SetWithTTL of a key that is in the store leaves every other key
\* in the store with the entry it had, also when the store is full.
C37_OnlyItsEntry ==
    [][(SetDone /\ Has(store, lastSet'.key)) =>
          \A k \in DOMAIN store \ {lastSet'.key} :
              Has(store', k) /\ store'[k] = store[k]]_vars

(***************************************************************************)
(* Properties of the rate limiter's cleanup                                *)
(***************************************************************************)
\* C38: every CheckRequest and CheckDNSRequest call gets the answer that the
\* limiter which never evicts a bucket gives to it.
C38_EvictionUnseen == rl.ret.called => rl.ret.allowed = rl.ret.never

(***************************************************************************)
(* Properties of UpdateLimits                                              *)
(***************************************************************************)
\* C39: every CheckRequest and CheckDNSRequest call is decided on a bucket whose
\* capacity and refill rate are the limit of its class as UpdateLimits has set it
\* last, and finds no more tokens than that limit, whether the bucket of the
\* address was there before the update or not.
C39_NewLimits ==
    [][AllowStep =>
        LET class  == rl'.ret.class
            bucket == ClassBuckets(rl', class)[rl'.ret.ip]
            limit  == ClassLimit(rl, class)
        IN  /\ bucket.capacity = limit
            /\ bucket.refillRate = limit
            /\ rl'.ret.avail <= limit]_vars

(***************************************************************************)
(* Properties of the detection counters                                    *)
(***************************************************************************)
\* the DetectBot calls that have been entered and have not returned
InDetectBot == {g \in Goroutines : th[g].pc # "idle"}

====
